---- MODULE Spec2Model ----
(***************************************************************************)
(* Geozona: the point-generation pipeline of services/geoService.ts.       *)
(*                                                                         *)
(* The file holds two versions of generatePointsFromGeoJson:               *)
(*   - the array version   (async function returning OutputFile[]),        *)
(*   - the async generator (yields progress / totalFiles / file events).   *)
(* One run of either version is modelled, step by step, from a request     *)
(* (geoJsonString, regionName, radiusKm).  The geometry library (turf) is  *)
(* external: each call returns one of the outcomes its caller tests for.   *)
(* Further specifications follow parseExcelToGeoJson over a sheet, two     *)
(* calls of the function in a row, and the handlers of the App component.  *)
(***************************************************************************)
EXTENDS Integers, Sequences, FiniteSets, TLC

VARIABLES
    version,          \* which generatePointsFromGeoJson runs: "array" | "generator"
    geoJsonString,    \* argument: the boundary text (App: the local of handleGenerateClick)
    regionName,       \* argument: the label, a sequence of characters (App: state `regionName`)
    radiusKm,         \* argument
    pc,               \* position of the run in the function body
    geometry,         \* generator: `geometry`; array: the geometry of `feature`
    bufferedPolygon,  \* generator: `bufferedPolygon`; array: `buffered`
    hexGrid,          \* generator: `hexGrid`; array: `grid` (turf.pointGrid)
    processedCount,   \* generator: `processedCount`
    points,           \* generator: `points`; array: `pointsWithin.features`
    regionSlug,       \* generator: `regionSlug`
    lines,            \* generator: `lines`; array: `formattedLines`
    totalFiles,       \* generator: `totalFiles`
    i,                \* loop index of the chunking loop
    outputFile,       \* generator: the `outputFile` built and not yet yielded
    outputFiles,      \* array: the local `outputFiles` (App: state `outputFiles`)
    events,           \* generator: what has been yielded to the consumer, in order
    returned,         \* array: the value the promise resolved with
    error,            \* the error the caller observes (thrown / rejected; App: state `error`)
    jsonArray,        \* parseExcelToGeoJson: the sheet's rows (`json` / `jsonArray`)
    latIndex,         \* parseExcelToGeoJson (async): `latIndex`, 0-based, -1: none
    lonIndex,         \* parseExcelToGeoJson (async): `lonIndex`, 0-based, -1: none
    rowIndex,         \* parseExcelToGeoJson: rows the loop has been through
    sheetPoints,      \* parseExcelToGeoJson: `coordinates` / `points`, [lon, lat] each
    invocation,       \* the caller: which call of the function is running (1, 2)
    firstRun,         \* the caller: what it keeps of the first call
    selectedFile,     \* App: state `selectedFile`
    isLoading,        \* App: state `isLoading`
    searchQuery,      \* App: state `searchQuery`
    isSearching,      \* App: state `isSearching`
    searchResults,    \* App: state `searchResults`
    searchError,      \* App: state `searchError`
    captured          \* App: the selectedFile and regionName of the render whose
                      \* handleGenerateClick is running

vars == <<version, geoJsonString, regionName, radiusKm, pc, geometry,
          bufferedPolygon, hexGrid, processedCount, points, regionSlug, lines,
          totalFiles, i, outputFile, outputFiles, events, returned, error,
          jsonArray, latIndex, lonIndex, rowIndex, sheetPoints,
          invocation, firstRun, selectedFile, isLoading, searchQuery,
          isSearching, searchResults, searchError, captured>>

\* the locals of parseExcelToGeoJson
sheetVars == <<jsonArray, latIndex, lonIndex, rowIndex, sheetPoints>>

\* what belongs to the caller of the functions, not to a call
callerVars == <<invocation, firstRun, selectedFile, isLoading, searchQuery,
                isSearching, searchResults, searchError, captured>>

----------------------------------------------------------------------------
(* Program constants *)

\* const CHUNK_SIZE = 200 (array version)
CHUNK_SIZE == 200

\* const pointsPerFile = 200 (generator)
pointsPerFile == 200

\* processedCount % 100 === 0 (generator: progress interval)
ProgressInterval == 100

(* Bounds of the model *)

\* candidate lattices have up to MaxHundreds * 100 + 1 cells
MaxHundreds == 4

\* feature collections hold up to MaxFeatures features
MaxFeatures == 2

----------------------------------------------------------------------------
(* Small helpers *)

Min(S) == CHOOSE x \in S : \A y \in S : x <= y

RECURSIVE Pow10(_)
Pow10(n) == IF n = 0 THEN 1 ELSE 10 * Pow10(n - 1)

----------------------------------------------------------------------------
(* GeoJSON input *)

\* a geometry object; id tells geometries of the same type apart
Geom(t, id) == [type |-> t, id |-> id]

\* a missing / null geometry (falsy)
NoGeom == [type |-> "null", id |-> 0]

Truthy(g) == g.type # "null"

IsPolygonal(g) == g.type = "Polygon" \/ g.type = "MultiPolygon"

\* a feature object
Feature(g) == [type |-> "Feature", geometry |-> g]

\* `undefined`, as Array.prototype.find returns it
UndefinedFeature == [type |-> "undefined", geometry |-> NoGeom]

\* parsed documents, in one record shape: a root geometry carries its own
\* type and id, a Feature its geometry, a FeatureCollection its features
RootGeometry(t, id) ==
    [type |-> t, id |-> id, geometry |-> NoGeom, features |-> <<>>]

RootFeature(g) ==
    [type |-> "Feature", id |-> 0, geometry |-> g, features |-> <<>>]

FeatureCollection(fs) ==
    [type |-> "FeatureCollection", id |-> 0, geometry |-> NoGeom, features |-> fs]

Geometries == {Geom("Polygon", 1), Geom("MultiPolygon", 2), Geom("Point", 3)}

FeatureGeometries == Geometries \cup {NoGeom}

FeatureSeqs ==
    UNION {[1..n -> {Feature(g) : g \in FeatureGeometries}] : n \in 0..MaxFeatures}

Docs ==
    {RootGeometry(g.type, g.id) : g \in Geometries}
    \cup {RootFeature(g) : g \in FeatureGeometries}
    \cup {FeatureCollection(fs) : fs \in FeatureSeqs}

\* the text of a document, and a text JSON.parse rejects
Stringify(d) == [text |-> "json", doc |-> d]

Malformed == [text |-> "malformed", doc |-> RootGeometry("null", 0)]

GeoJsonStrings == {Stringify(d) : d \in Docs} \cup {Malformed}

\* the argument once JSON.parse and the search for the geometry are done:
\* no later statement reads the text or the parsed document, and the model
\* drops them, so that runs that go on with the same geometry coincide
Consumed == [text |-> "consumed", doc |-> RootGeometry("null", 0)]

\* JSON.parse(geoJsonString)
ParseThrows(s) == s.text # "json"

JsonParse(s) == s.doc

\* the polygons a geometry is made of: geometry.coordinates of a
\* MultiPolygon lists its constituent polygons, a Polygon is its own
Polygons(g) ==
    IF g.type = "MultiPolygon"
    THEN <<Geom("Polygon", 10 * g.id + 1), Geom("Polygon", 10 * g.id + 2)>>
    ELSE IF g.type = "Polygon" THEN <<g>>
    ELSE <<>>

\* find replaced by a search from the end: the last polygon feature
FindLastPolygonFeature(features) ==
    LET hits == {k \in 1..Len(features) :
                    Truthy(features[k].geometry) /\ IsPolygonal(features[k].geometry)}
    IN  IF hits = {} THEN UndefinedFeature
        ELSE features[CHOOSE k \in hits : \A n \in hits : n <= k]

\* the feature found, its MultiPolygon cut down to its first polygon
FindPolygonFeatureFirstPolygon(features) ==
    LET hits == {k \in 1..Len(features) :
                    Truthy(features[k].geometry) /\ IsPolygonal(features[k].geometry)}
    IN  IF hits = {} THEN UndefinedFeature
        ELSE Feature(Polygons(features[Min(hits)].geometry)[1])

\* geoJson.features.find(f => f.geometry && (f.geometry.type === 'Polygon'
\*                                        || f.geometry.type === 'MultiPolygon'))
FindPolygonFeature(features) ==
    LET hits == {k \in 1..Len(features) :
                    Truthy(features[k].geometry) /\ IsPolygonal(features[k].geometry)}
    IN  IF hits = {} THEN UndefinedFeature ELSE features[Min(hits)]

\* array version, lines 102-111: the geometry of `feature`, NoGeom when
\* `feature` stays undefined
NormalizeArray(geoJson) ==
    IF geoJson.type = "FeatureCollection"
    THEN FindPolygonFeature(geoJson.features).geometry
    ELSE IF geoJson.type = "Feature" /\ Truthy(geoJson.geometry)
            /\ IsPolygonal(geoJson.geometry)
    THEN geoJson.geometry
    ELSE IF geoJson.type = "Polygon" \/ geoJson.type = "MultiPolygon"
    THEN Geom(geoJson.type, geoJson.id)
    ELSE NoGeom

\* generator, lines 263-271: `geometry`
NormalizeGen(geoJson) ==
    IF geoJson.type = "Feature"
    THEN geoJson.geometry
    ELSE IF geoJson.type = "Polygon" \/ geoJson.type = "MultiPolygon"
    THEN Geom(geoJson.type, geoJson.id)
    ELSE IF geoJson.type = "FeatureCollection" /\ Len(geoJson.features) > 0
    THEN LET polyFeature == FindPolygonFeature(geoJson.features)
         IN  IF polyFeature.type # "undefined" THEN polyFeature.geometry ELSE NoGeom
    ELSE NoGeom

----------------------------------------------------------------------------
(* Errors: each kind stands for an Error with the message the source gives *)
(* it; the message is kept as its opening words and the rest, the Russian *)
(* text transliterated.                                                    *)

Message(e) ==
    CASE e = "NoPolygonGeometry" -> <<"V predostavlennyh dannyh", "ne naidena geometriya">>
      [] e = "RegionTooSmall"    -> <<"Ne udalos", "sgenerirovat tochki. Vozmozhno">>
      [] e = "NoPointsArray"     -> <<"Ne udalos", "sgenerirovat ni odnoi tochki vnutri">>
      [] e = "NoPointsGen"       -> <<"Ne udalos", "sgenerirovat tochki. Vnutri">>
      [] e = "Generic"           -> <<"Proizoshla oshibka", "pri obrabotke geometrii">>
      [] e = "SyntaxError"       -> <<"Unexpected token", "in JSON">>
      [] e = "TypeError"         -> <<"Cannot read properties", "of undefined">>
      [] e = "TurfError"         -> <<"coordinates must", "contain numbers">>
      [] OTHER                   -> <<"", "">>

\* e.message.startsWith('Ne udalos') (the Russian words, transliterated)
StartsWithNeUdalos(e) == Message(e)[1] = "Ne udalos"

\* a catch block that rethrows nothing as it is
CatchBlockMasksAll(e) == IF e = e THEN "Generic" ELSE e

\* generator, lines 333-339: what the catch block throws for a caught e
CatchBlock(e) == IF StartsWithNeUdalos(e) THEN e ELSE "Generic"

----------------------------------------------------------------------------
(* Labels: a string is a sequence of characters.  "YA" and "ya" stand for  *)
(* an upper-case and a lower-case Cyrillic letter, which is a letter for    *)
(* toLowerCase but not a word character for the regular expression \w;     *)
(* so do the characters named "CYR-..." and "cyr-...".                      *)

LowerLetters == {"a", "b", "c", "j", "l", "m", "n", "o", "r", "s", "t", "u", "z"}

UpperLetters == {"A", "B", "C", "J", "L", "M", "N", "O", "R", "S", "T", "U", "Z"}

Digits == {"0", "1", "2", "3", "4", "5", "6", "7", "8", "9"}

\* String.prototype.toLowerCase, character by character
LowerOf(c) ==
    CASE c = "A" -> "a" [] c = "B" -> "b" [] c = "C" -> "c" [] c = "M" -> "m"
      [] c = "R" -> "r" [] c = "U" -> "u" [] c = "Z" -> "z" [] c = "YA" -> "ya"
      [] c = "L" -> "l" [] c = "N" -> "n" [] c = "O" -> "o" [] c = "T" -> "t"
      [] c = "CYR-SH" -> "cyr-sh" [] c = "CYR-D" -> "cyr-d"
      [] c = "J" -> "j" [] c = "S" -> "s"
      [] OTHER -> c

ToLowerCase(text) == [k \in 1..Len(text) |-> LowerOf(text[k])]

\* \s
IsWhitespace(c) == c = " " \/ c = "\t"

\* \w is [A-Za-z0-9_]
IsWordChar(c) == c \in LowerLetters \cup UpperLetters \cup Digits \cup {"_"}

\* .replace(/\s+/g, '-'): every maximal run of whitespace becomes one hyphen
RECURSIVE ReplaceWhitespaceRuns(_)
ReplaceWhitespaceRuns(text) ==
    IF text = <<>> THEN <<>>
    ELSE IF IsWhitespace(Head(text))
    THEN IF Len(text) > 1 /\ IsWhitespace(text[2])
         THEN ReplaceWhitespaceRuns(Tail(text))
         ELSE <<"-">> \o ReplaceWhitespaceRuns(Tail(text))
    ELSE <<Head(text)>> \o ReplaceWhitespaceRuns(Tail(text))

\* .replace(/[^\w\-]+/g, ''): characters other than \w and the hyphen go
RemoveNonWord(text) == SelectSeq(text, LAMBDA c : IsWordChar(c) \/ c = "-")

\* .replace(/\-\-+/g, '-'): every run of two or more hyphens becomes one
RECURSIVE CollapseHyphens(_)
CollapseHyphens(text) ==
    IF text = <<>> THEN <<>>
    ELSE IF Head(text) = "-" /\ Len(text) > 1 /\ text[2] = "-"
    THEN CollapseHyphens(Tail(text))
    ELSE <<Head(text)>> \o CollapseHyphens(Tail(text))

\* .replace(/^-+/, '')
RECURSIVE TrimLeadingHyphens(_)
TrimLeadingHyphens(text) ==
    IF text # <<>> /\ Head(text) = "-" THEN TrimLeadingHyphens(Tail(text)) ELSE text

\* .replace(/-+$/, '')
RECURSIVE TrimTrailingHyphens(_)
TrimTrailingHyphens(text) ==
    IF text # <<>> /\ text[Len(text)] = "-"
    THEN TrimTrailingHyphens(SubSeq(text, 1, Len(text) - 1))
    ELSE text

\* the two trimming replacements left out
slugifyUntrimmed(text) ==
    CollapseHyphens(RemoveNonWord(ReplaceWhitespaceRuns(ToLowerCase(text))))

\* generator, lines 307-314
slugify(text) ==
    TrimTrailingHyphens(TrimLeadingHyphens(CollapseHyphens(
        RemoveNonWord(ReplaceWhitespaceRuns(ToLowerCase(text))))))

----------------------------------------------------------------------------
(* Numbers and their text.  A coordinate is a count of 1e-7 degrees; a     *)
(* decimal numeral is [int, frac, digits]: int "." frac written with      *)
(* `digits` fractional digits (digits = 0: no fractional part).            *)

\* toFixed(6)
FixedDigits == 6

\* a coordinate carries one digit more than toFixed keeps
CoordDigits == FixedDigits + 1

\* Number.prototype.toFixed(6)
ToFixed6(x) ==
    LET micro == (x + 5) \div 10
    IN  [int |-> micro \div Pow10(FixedDigits), frac |-> micro % Pow10(FixedDigits),
         digits |-> FixedDigits]

\* the default conversion of a number in a template literal: the shortest
\* numeral, trailing zeros of the fraction dropped
RECURSIVE DropTrailingZeros(_, _)
DropTrailingZeros(frac, digits) ==
    IF digits > 0 /\ frac % 10 = 0
    THEN DropTrailingZeros(frac \div 10, digits - 1)
    ELSE [frac |-> frac, digits |-> digits]

NumberToString(x) ==
    LET d == DropTrailingZeros(x % Pow10(CoordDigits), CoordDigits)
    IN  [int |-> x \div Pow10(CoordDigits), frac |-> d.frac, digits |-> d.digits]

\* array version, line 139
FormatLineArray(name, radius, coord) ==
    [label |-> name, radius |-> radius,
     lat |-> ToFixed6(coord.latitude), sep |-> ",", lon |-> ToFixed6(coord.longitude)]

\* generator, line 316
FormatLineGen(slug, radius, p) ==
    [label |-> slug, radius |-> radius,
     lat |-> NumberToString(p.latitude), sep |-> ", ",
     lon |-> NumberToString(p.longitude)]

\* the name of a file: `${stem}_part${fileNumber}.txt`
FileName(stem, fileNumber) == [stem |-> stem, part |-> fileNumber, ext |-> ".txt"]

\* an OutputFile; the content is chunk.join('\n'), kept as the joined lines
OutputFileOf(stem, fileNumber, chunk) ==
    [name |-> FileName(stem, fileNumber), content |-> chunk]

\* slice with its end included: every chunk takes one line too many
SliceEndIncluded(seq, from, to) ==
    SubSeq(seq, from + 1, IF to + 1 < Len(seq) THEN to + 1 ELSE Len(seq))

\* Array.prototype.slice(from, to) of a sequence, 0-based, `to` excluded
Slice(seq, from, to) ==
    SubSeq(seq, from + 1, IF to < Len(seq) THEN to ELSE Len(seq))

\* Math.ceil(n / d) for n >= 0, d > 0
CeilDiv(n, d) == (n + d - 1) \div d

----------------------------------------------------------------------------
(* The geometry library: what its calls can hand back *)

\* turf.buffer: undefined, a feature without geometry, a feature whose
\* coordinates are [], a feature whose coordinates are [[]], a polygon.
\* `assigned` is FALSE only for the constant not yet initialised.
BufferResult(defined, hasGeometry, coordinates) ==
    [assigned |-> TRUE, defined |-> defined, hasGeometry |-> hasGeometry,
     coordinates |-> coordinates]

Unassigned ==
    [assigned |-> FALSE, defined |-> FALSE, hasGeometry |-> FALSE, coordinates |-> <<>>]

Undefined == BufferResult(FALSE, FALSE, <<>>)

NoGeometry == BufferResult(TRUE, FALSE, <<>>)

NoCoordinates == BufferResult(TRUE, TRUE, <<>>)

EmptyRing == BufferResult(TRUE, TRUE, << <<>> >>)

Ring == BufferResult(TRUE, TRUE, << <<1, 2, 3, 1>> >>)

BufferResults == {Undefined, NoGeometry, NoCoordinates, EmptyRing, Ring}

\* turf.hexGrid / turf.pointGrid: the number of cells, and which of them
\* turf.booleanPointInPolygon / turf.pointsWithinPolygon finds inside
GridSizes ==
    {0, 1, 2} \cup {k * ProgressInterval + d : k \in 1..MaxHundreds, d \in {0, 1}}

InsidePatterns == {"all", "none", "odd"}

Grids == [total : GridSizes, pattern : InsidePatterns]

\* the grid before the library call that makes it
EmptyGrid == [total |-> 0, pattern |-> "unset"]

\* turf.booleanPointInPolygon(center of cell k, bufferedPolygon)
Inside(grid, k) ==
    CASE grid.pattern = "all" -> TRUE
      [] grid.pattern = "odd" -> k % 2 = 1
      [] OTHER -> FALSE

\* turf.centroid(cell k).geometry.coordinates, in units of 1e-7 degrees
Centroid(k) ==
    [latitude |-> 500000000 + k * 12345, longitude |-> 1270000000 + k * 100000]

\* turf.pointsWithinPolygon(grid, buffered).features, as coordinates
PointsWithinPolygon(grid) ==
    LET cells == [k \in 1..grid.total |-> k]
        within == SelectSeq(cells, LAMBDA k : Inside(grid, k))
    IN  [n \in 1..Len(within) |-> Centroid(within[n])]

----------------------------------------------------------------------------
(* Requests *)

Labels == {<<"A", "m", "u", "r">>, <<"Z", " ", "_", "1">>}

Radii == {2, 10}

NoFile == OutputFileOf(<<>>, 0, <<>>)

\* a call of the library the function did not make
NoCall == [called |-> FALSE, args |-> <<>>, throws |-> FALSE]

\* the caller has made no call before this one
NoRun ==
    [pc |-> "none", error |-> "none", events |-> <<>>, returned |-> <<>>,
     buffer |-> NoCall, bufferValue |-> Unassigned,
     grid |-> NoCall, gridValue |-> EmptyGrid,
     inside |-> NoCall, insideThrowsAt |-> 0]

\* a file object; `boundary` is the geometry its content describes
File(name, boundary) == [name |-> name, boundary |-> boundary]

\* selectedFile === null
NoSelectedFile == File(<<>>, NoGeom)

\* no handleGenerateClick is running
NoCapture == [selectedFile |-> NoSelectedFile, regionName |-> <<>>]

\* App.tsx lines 225-235: the useState initial values
AppMounted ==
    /\ selectedFile = NoSelectedFile
    /\ isLoading = FALSE
    /\ searchQuery = <<>>
    /\ isSearching = FALSE
    /\ searchResults = <<>>
    /\ searchError = "none"
    /\ captured = NoCapture

OneCall == invocation = 1 /\ firstRun = NoRun /\ AppMounted

Init ==
    /\ version \in {"array", "generator"}
    /\ geoJsonString \in GeoJsonStrings
    /\ regionName \in Labels
    /\ radiusKm \in Radii
    /\ pc = "start"
    /\ geometry = NoGeom
    /\ bufferedPolygon = Unassigned
    /\ hexGrid = EmptyGrid
    /\ processedCount = 0
    /\ points = <<>>
    /\ regionSlug = <<>>
    /\ lines = <<>>
    /\ totalFiles = 0
    /\ i = 0
    /\ outputFile = NoFile
    /\ outputFiles = <<>>
    /\ events = <<>>
    /\ returned = <<>>
    /\ error = "none"
    /\ jsonArray = <<>>
    /\ latIndex = -1
    /\ lonIndex = -1
    /\ rowIndex = 0
    /\ sheetPoints = <<>>
    /\ OneCall

request == <<version, geoJsonString, regionName, radiusKm>>

arguments == <<version, regionName, radiusKm>>

\* the rejection of the array version's promise: the error as thrown
ThrowArray(e) ==
    /\ pc' = "threw"
    /\ error' = e

\* the generator throws inside its try block: the caller gets what the
\* catch block throws
ThrowGen(e) ==
    /\ pc' = "threw"
    /\ error' = CatchBlock(e)

----------------------------------------------------------------------------
(* The array version of generatePointsFromGeoJson, lines 94-154 *)

\* line 119: !buffered || buffered.geometry.coordinates.length === 0
BufferEmptyArray(b) == ~b.defined \/ Len(b.coordinates) = 0

\* line 132: pointsWithin.features.length === 0
NoPointsWithin(pts) == Len(pts) = 0

\* line 146: Math.floor(i / CHUNK_SIZE) + 1
FileNumberArray(idx) == (idx \div CHUNK_SIZE) + 1

\* outputFiles declared outside the function: a later call goes on with
\* what the earlier call left in it
OutputFilesKept(left) == left

\* line 143: const outputFiles: OutputFile[] = [], a local of each call
NewOutputFiles(left) == <<>>

\* lines 99-115: parse, find the polygon feature
ArrayFindGeometry(textAfter) ==
    /\ version = "array" /\ pc = "start"
    /\ IF ParseThrows(geoJsonString)
       THEN ThrowArray("SyntaxError") /\ UNCHANGED <<geometry, geoJsonString>>
       ELSE LET g == NormalizeArray(JsonParse(geoJsonString))
            IN  IF ~Truthy(g)
                THEN /\ ThrowArray("NoPolygonGeometry")
                     /\ UNCHANGED <<geometry, geoJsonString>>
                ELSE /\ geometry' = g
                     /\ geoJsonString' = textAfter
                     /\ pc' = "buffer"
                     /\ UNCHANGED error
    /\ UNCHANGED <<callerVars, sheetVars, arguments, bufferedPolygon, hexGrid, processedCount, points,
                   regionSlug, lines, totalFiles, i, outputFile, outputFiles,
                   events, returned>>

\* the step within a whole run: the text is not read again
ArrayNormalize == ArrayFindGeometry(Consumed)

\* lines 118-121: the negative buffer
ArrayBuffer ==
    /\ version = "array" /\ pc = "buffer"
    /\ \/ ThrowArray("TurfError") /\ UNCHANGED bufferedPolygon
       \/ \E b \in BufferResults :
            IF b.defined /\ ~b.hasGeometry
            THEN ThrowArray("TypeError") /\ bufferedPolygon' = b
            ELSE IF BufferEmptyArray(b)
            THEN ThrowArray("RegionTooSmall") /\ bufferedPolygon' = b
            ELSE bufferedPolygon' = b /\ pc' = "grid" /\ UNCHANGED error
    /\ UNCHANGED <<callerVars, sheetVars, request, geometry, hexGrid, processedCount, points,
                   regionSlug, lines, totalFiles, i, outputFile, outputFiles,
                   events, returned>>

\* lines 125-134: bbox, pointGrid, pointsWithinPolygon
ArrayGridFilter ==
    /\ version = "array" /\ pc = "grid"
    /\ \/ ThrowArray("TurfError") /\ UNCHANGED <<hexGrid, points>>
       \/ \E g \in Grids :
            /\ hexGrid' = g
            /\ points' = PointsWithinPolygon(g)
            /\ IF NoPointsWithin(points')
               THEN ThrowArray("NoPointsArray")
               ELSE pc' = "format" /\ UNCHANGED error
    /\ UNCHANGED <<callerVars, sheetVars, request, geometry, bufferedPolygon, processedCount,
                   regionSlug, lines, totalFiles, i, outputFile, outputFiles,
                   events, returned>>

\* lines 137-143: formattedLines, the empty outputFiles, i = 0
ArrayFormat ==
    /\ version = "array" /\ pc = "format"
    /\ lines' = [k \in 1..Len(points) |-> FormatLineArray(regionName, radiusKm, points[k])]
    /\ outputFiles' = NewOutputFiles(outputFiles)
    /\ i' = 0
    /\ pc' = "chunk"
    /\ UNCHANGED <<callerVars, sheetVars, request, geometry, bufferedPolygon, hexGrid, processedCount,
                   points, regionSlug, totalFiles, outputFile, events, returned,
                   error>>

\* lines 144-151: one iteration of the chunking loop
ArrayChunk ==
    /\ version = "array" /\ pc = "chunk"
    /\ i < Len(lines)
    /\ LET chunk == Slice(lines, i, i + CHUNK_SIZE)
           fileNumber == FileNumberArray(i)
       IN  outputFiles' = Append(outputFiles, OutputFileOf(regionName, fileNumber, chunk))
    /\ i' = i + CHUNK_SIZE
    /\ UNCHANGED <<callerVars, sheetVars, request, pc, geometry, bufferedPolygon, hexGrid,
                   processedCount, points, regionSlug, lines, totalFiles,
                   outputFile, events, returned, error>>

\* line 153: return outputFiles
ArrayReturn ==
    /\ version = "array" /\ pc = "chunk"
    /\ ~(i < Len(lines))
    /\ returned' = outputFiles
    /\ pc' = "returned"
    /\ UNCHANGED <<callerVars, sheetVars, request, geometry, bufferedPolygon, hexGrid, processedCount,
                   points, regionSlug, lines, totalFiles, i, outputFile,
                   outputFiles, events, error>>

----------------------------------------------------------------------------
(* The async generator generatePointsFromGeoJson, lines 255-340 *)

\* line 279: !bufferedPolygon || !bufferedPolygon.geometry
\*   || coordinates.length === 0 || coordinates[0].length === 0
BufferEmptyGen(b) ==
    \/ ~b.defined
    \/ ~b.hasGeometry
    \/ Len(b.coordinates) = 0
    \/ Len(b.coordinates[1]) = 0

\* the check for an empty result left out
NoPointsNeverChecked(pts) == Len(pts) < 0

\* line 303: points.length === 0
NoPointsAccepted(pts) == Len(pts) = 0

\* the progress test always true: a yield after every cell
ProgressDueEveryCell(processed, totalHexagons) == processed = processed

\* the progress test without its second disjunct: no event for the last cells
ProgressDueHundredsOnly(processed, totalHexagons) ==
    processed % ProgressInterval = 0 /\ totalHexagons = totalHexagons

\* the progress test with twice the interval
ProgressDueEveryOtherHundred(processed, totalHexagons) ==
    processed % (2 * ProgressInterval) = 0 \/ processed = totalHexagons

\* line 297: processedCount % 100 === 0 || processedCount === totalHexagons
ProgressDue(processed, totalHexagons) ==
    processed % ProgressInterval = 0 \/ processed = totalHexagons

\* the share of the cells still to do, instead of the cells done
ProgressValueRemaining(processed, totalHexagons) ==
    [num |-> (totalHexagons - processed) * 100, den |-> totalHexagons]

\* line 299: (processedCount / totalHexagons) * 100, as a fraction num/den
ProgressValue(processed, totalHexagons) ==
    [num |-> processed * 100, den |-> totalHexagons]

\* Math.floor where the code has Math.ceil
TotalFilesFloor(n) == n \div pointsPerFile

\* line 319: Math.ceil(lines.length / pointsPerFile)
TotalFilesOf(n) == CeilDiv(n, pointsPerFile)

\* the file number without its + 1: parts counted from 0
FileNumberFromZero(idx) == idx \div pointsPerFile

\* line 324: (i / pointsPerFile) + 1; i is a multiple of pointsPerFile
FileNumberGen(idx) == (idx \div pointsPerFile) + 1

\* line 322, the loop's step: i += pointsPerFile
NextChunkStart(idx) == idx + pointsPerFile

ProgressEvent(v) == [type |-> "progress", value |-> v]

TotalFilesEvent(n) == [type |-> "totalFiles", value |-> n]

FileEvent(f) == [type |-> "file", value |-> f]

genLocals == <<geometry, bufferedPolygon, hexGrid, processedCount, points,
               regionSlug, lines, totalFiles, i, outputFile>>

\* lines 261-275: parse, pick the geometry
GenFindGeometry(textAfter) ==
    /\ version = "generator" /\ pc = "start"
    /\ IF ParseThrows(geoJsonString)
       THEN ThrowGen("SyntaxError") /\ UNCHANGED <<geometry, geoJsonString>>
       ELSE LET g == NormalizeGen(JsonParse(geoJsonString))
            IN  IF ~Truthy(g)
                THEN /\ ThrowGen("NoPolygonGeometry")
                     /\ UNCHANGED <<geometry, geoJsonString>>
                ELSE /\ geometry' = g
                     /\ geoJsonString' = textAfter
                     /\ pc' = "buffer"
                     /\ UNCHANGED error
    /\ UNCHANGED <<callerVars, sheetVars, arguments, bufferedPolygon, hexGrid, processedCount, points,
                   regionSlug, lines, totalFiles, i, outputFile, outputFiles,
                   events, returned>>

\* the step within a whole run: the text is not read again
GenNormalize == GenFindGeometry(Consumed)

\* lines 277-281: the negative buffer
GenBuffer ==
    /\ version = "generator" /\ pc = "buffer"
    /\ \/ ThrowGen("TurfError") /\ UNCHANGED bufferedPolygon
       \/ \E b \in BufferResults :
            /\ bufferedPolygon' = b
            /\ IF BufferEmptyGen(b)
               THEN ThrowGen("RegionTooSmall")
               ELSE pc' = "grid" /\ UNCHANGED error
    /\ UNCHANGED <<callerVars, sheetVars, request, geometry, hexGrid, processedCount, points,
                   regionSlug, lines, totalFiles, i, outputFile, outputFiles,
                   events, returned>>

\* lines 283-288: bbox, hexGrid, the empty points, processedCount = 0
GenHexGrid ==
    /\ version = "generator" /\ pc = "grid"
    /\ \/ ThrowGen("TurfError") /\ UNCHANGED <<hexGrid, points, processedCount>>
       \/ \E g \in Grids :
            /\ hexGrid' = g
            /\ points' = <<>>
            /\ processedCount' = 0
            /\ pc' = "filter"
            /\ UNCHANGED error
    /\ UNCHANGED <<callerVars, sheetVars, request, geometry, bufferedPolygon, regionSlug, lines,
                   totalFiles, i, outputFile, outputFiles, events, returned>>

\* the filtering loop fused with the chunking: a file is yielded as soon as
\* pointsPerFile more points are accepted, while later cells may still throw
GenEvaluateCellFused ==
    /\ version = "generator" /\ pc = "filter"
    /\ processedCount < hexGrid.total
    /\ \/ ThrowGen("TurfError") /\ UNCHANGED <<points, processedCount, events>>
       \/ /\ points' = IF Inside(hexGrid, processedCount + 1)
                       THEN Append(points, Centroid(processedCount + 1))
                       ELSE points
          /\ processedCount' = processedCount + 1
          /\ events' =
                IF points' # points /\ Len(points') % pointsPerFile = 0
                THEN Append(events, FileEvent(OutputFileOf(slugify(regionName),
                        Len(points') \div pointsPerFile,
                        [k \in 1..pointsPerFile |->
                            FormatLineGen(slugify(regionName), radiusKm,
                                          points'[Len(points') - pointsPerFile + k])])))
                ELSE events
          /\ pc' = IF ProgressDue(processedCount', hexGrid.total)
                   THEN "awaitProgress" ELSE "filter"
          /\ UNCHANGED error
    /\ UNCHANGED <<callerVars, sheetVars, arguments, geoJsonString, geometry, bufferedPolygon, hexGrid,
                   regionSlug, lines, totalFiles, i, outputFile, outputFiles,
                   returned>>

\* lines 290-298: one cell of the filtering loop, up to the await of line 298
GenEvaluateCell ==
    /\ version = "generator" /\ pc = "filter"
    /\ processedCount < hexGrid.total
    /\ \/ ThrowGen("TurfError") /\ UNCHANGED <<points, processedCount>>
       \/ /\ points' = IF Inside(hexGrid, processedCount + 1)
                       THEN Append(points, Centroid(processedCount + 1))
                       ELSE points
          /\ processedCount' = processedCount + 1
          /\ pc' = IF ProgressDue(processedCount', hexGrid.total)
                   THEN "awaitProgress" ELSE "filter"
          /\ UNCHANGED error
    /\ UNCHANGED <<callerVars, sheetVars, request, geometry, bufferedPolygon, hexGrid, regionSlug,
                   lines, totalFiles, i, outputFile, outputFiles, events, returned>>

\* lines 298-299: the timer fires, the progress event is yielded
GenYieldProgress ==
    /\ version = "generator" /\ pc = "awaitProgress"
    /\ events' = Append(events, ProgressEvent(ProgressValue(processedCount, hexGrid.total)))
    /\ pc' = "yieldProgress"
    /\ UNCHANGED <<callerVars, sheetVars, request, genLocals, outputFiles, returned, error>>

\* the consumer asks for the next value after a progress event
GenResumeFilter ==
    /\ version = "generator" /\ pc = "yieldProgress"
    /\ pc' = "filter"
    /\ UNCHANGED <<callerVars, sheetVars, request, genLocals, outputFiles, events, returned, error>>

\* lines 303-320: after the loop: the check for no points, slug, lines,
\* totalFiles and its event
GenFormat ==
    /\ version = "generator" /\ pc = "filter"
    /\ ~(processedCount < hexGrid.total)
    /\ IF NoPointsAccepted(points)
       THEN /\ ThrowGen("NoPointsGen")
            /\ UNCHANGED <<regionSlug, lines, totalFiles, events>>
       ELSE /\ regionSlug' = slugify(regionName)
            /\ lines' = [k \in 1..Len(points) |->
                            FormatLineGen(regionSlug', radiusKm, points[k])]
            /\ totalFiles' = TotalFilesOf(Len(lines'))
            /\ events' = Append(events, TotalFilesEvent(totalFiles'))
            /\ pc' = "yieldTotal"
            /\ UNCHANGED error
    /\ UNCHANGED <<callerVars, sheetVars, request, geometry, bufferedPolygon, hexGrid, processedCount,
                   points, i, outputFile, outputFiles, returned>>

\* line 322: the consumer asks for the next value after totalFiles: i = 0
GenResumeTotal ==
    /\ version = "generator" /\ pc = "yieldTotal"
    /\ i' = 0
    /\ pc' = "chunk"
    /\ UNCHANGED <<callerVars, sheetVars, request, geometry, bufferedPolygon, hexGrid, processedCount,
                   points, regionSlug, lines, totalFiles, outputFile,
                   outputFiles, events, returned, error>>

\* lines 322-329: the loop test, the outputFile is built, the timer starts
GenBuildFile ==
    /\ version = "generator" /\ pc = "chunk"
    /\ i < Len(lines)
    /\ LET chunk == Slice(lines, i, i + pointsPerFile)
           fileNumber == FileNumberGen(i)
       IN  outputFile' = OutputFileOf(regionSlug, fileNumber, chunk)
    /\ pc' = "awaitFile"
    /\ UNCHANGED <<callerVars, sheetVars, request, geometry, bufferedPolygon, hexGrid, processedCount,
                   points, regionSlug, lines, totalFiles, i, outputFiles,
                   events, returned, error>>

\* lines 329-330: the timer fires, the file event is yielded
GenYieldFile ==
    /\ version = "generator" /\ pc = "awaitFile"
    /\ events' = Append(events, FileEvent(outputFile))
    /\ pc' = "yieldFile"
    /\ UNCHANGED <<callerVars, sheetVars, request, genLocals, outputFiles, returned, error>>

\* line 322: the consumer asks for the next value after a file: i += pointsPerFile
GenResumeChunk ==
    /\ version = "generator" /\ pc = "yieldFile"
    /\ i' = NextChunkStart(i)
    /\ pc' = "chunk"
    /\ UNCHANGED <<callerVars, sheetVars, request, geometry, bufferedPolygon, hexGrid, processedCount,
                   points, regionSlug, lines, totalFiles, outputFile,
                   outputFiles, events, returned, error>>

\* line 331: the loop ends, the generator completes
GenDone ==
    /\ version = "generator" /\ pc = "chunk"
    /\ ~(i < Len(lines))
    /\ pc' = "done"
    /\ UNCHANGED <<callerVars, sheetVars, request, genLocals, outputFiles, events, returned, error>>

\* the places where the generator is suspended for its consumer: before its
\* first step and at each yield
SuspendedForConsumer ==
    pc \in {"start", "yieldProgress", "yieldTotal", "yieldFile"}

\* the consumer calls return() on the generator (or leaves its for-await
\* loop): a suspended generator completes there; nothing of its body runs
Cancel ==
    /\ version = "generator"
    /\ SuspendedForConsumer
    /\ pc' = "cancelled"
    /\ UNCHANGED <<callerVars, sheetVars, request, genLocals, outputFiles, events, returned, error>>

----------------------------------------------------------------------------

Next ==
    \/ ArrayNormalize
    \/ ArrayBuffer
    \/ ArrayGridFilter
    \/ ArrayFormat
    \/ ArrayChunk
    \/ ArrayReturn
    \/ GenNormalize
    \/ GenBuffer
    \/ GenHexGrid
    \/ GenEvaluateCell
    \/ GenYieldProgress
    \/ GenResumeFilter
    \/ GenFormat
    \/ GenResumeTotal
    \/ GenBuildFile
    \/ GenYieldFile
    \/ GenResumeChunk
    \/ GenDone
    \/ Cancel

Spec == Init /\ [][Next]_vars

----------------------------------------------------------------------------
(* What a run has handed to its caller *)

FileEvents == SelectSeq(events, LAMBDA e : e.type = "file")

ProgressEvents == SelectSeq(events, LAMBDA e : e.type = "progress")

TotalFilesEvents == SelectSeq(events, LAMBDA e : e.type = "totalFiles")

\* the batches emitted so far: the generator's file events, the array
\* version's returned array
EmittedBatches ==
    IF version = "array" THEN returned
    ELSE [k \in 1..Len(FileEvents) |-> FileEvents[k].value]

Completed == pc = "returned" \/ pc = "done"

Failed == pc = "threw"

BatchSize == IF version = "array" THEN CHUNK_SIZE ELSE pointsPerFile

RECURSIVE ConcatContents(_)
ConcatContents(batches) ==
    IF batches = <<>> THEN <<>>
    ELSE ConcatContents(SubSeq(batches, 1, Len(batches) - 1))
            \o batches[Len(batches)].content

\* the formatted lines of the lattice points the filter accepts, in lattice order
AcceptedLines ==
    LET accepted == PointsWithinPolygon(hexGrid)
    IN  IF version = "array"
        THEN [k \in 1..Len(accepted) |-> FormatLineArray(regionName, radiusKm, accepted[k])]
        ELSE [k \in 1..Len(accepted) |->
                 FormatLineGen(slugify(regionName), radiusKm, accepted[k])]

IsPrefix(s, t) == Len(s) <= Len(t) /\ s = SubSeq(t, 1, Len(s))

----------------------------------------------------------------------------
(* C1: in both versions no emitted batch holds more than the batch size    *)
(* (200) lines; the concatenation of the emitted batches' lines, in        *)
(* emission order, is at every moment a prefix of the formatted lines of   *)
(* the accepted points in point order, and in a completed run it is the    *)
(* whole sequence: no line missing, none repeated.                         *)
C1_BatchesPartitionLines ==
    EmittedBatches # <<>> =>
        /\ \A k \in 1..Len(EmittedBatches) :
              Len(EmittedBatches[k].content) <= BatchSize
        /\ IsPrefix(ConcatContents(EmittedBatches), AcceptedLines)
        /\ Completed => ConcatContents(EmittedBatches) = AcceptedLines

\* a completed generator run of 401 accepted points: batches of 200, 200, 1
C1_Witness ==
    /\ version = "generator" /\ pc = "done"
    /\ Len(EmittedBatches) = 3
    /\ Len(EmittedBatches[3].content) = 1
    /\ Len(points) = 2 * pointsPerFile + 1

(* C2: the k-th batch emitted carries part number k in its name: part      *)
(* numbers start at 1 and grow by exactly 1 in emission order.             *)
C2_PartNumbersCount ==
    \A k \in 1..Len(EmittedBatches) : EmittedBatches[k].name.part = k

\* the array version returned three files
C2_Witness ==
    /\ version = "array" /\ pc = "returned"
    /\ Len(returned) = 3
    /\ returned[3].name.part = 3

(* C3: whenever a run fails, it has produced no batch: the generator has   *)
(* yielded no 'file' event before the error, the array version has         *)
(* returned no array.                                                      *)
C3_FailureEmitsNoBatch ==
    Failed => FileEvents = <<>> /\ returned = <<>> /\ EmittedBatches = <<>>

\* the generator fails in the filtering loop after progress events were yielded
C3_Witness ==
    /\ version = "generator" /\ Failed
    /\ error = "Generic"
    /\ processedCount >= pointsPerFile
    /\ Len(points) >= pointsPerFile
    /\ ProgressEvents # <<>>

(* C4: within one generator run the progress values never decrease, and    *)
(* each is the percentage of a processed count between 0 and the total,    *)
(* so it lies in [0, 100].                                                 *)
C4_ProgressMonotoneBounded ==
    LET pe == ProgressEvents
    IN  /\ \A k \in 1..Len(pe) :
              /\ pe[k].value.den = hexGrid.total
              /\ \E processed \in 0..hexGrid.total :
                    pe[k].value.num = processed * 100
              /\ 0 <= pe[k].value.num
              /\ pe[k].value.num <= 100 * pe[k].value.den
        /\ \A j, k \in 1..Len(pe) :
              j < k => pe[j].value.num * pe[k].value.den
                          <= pe[k].value.num * pe[j].value.den

\* five progress events, the first below and the last at 100 percent
C4_Witness ==
    /\ Len(ProgressEvents) = 5
    /\ ProgressEvents[1].value.num < 100 * ProgressEvents[1].value.den
    /\ ProgressEvents[5].value.num = 100 * ProgressEvents[5].value.den

(* C5 (as stated): a cancelled generator emits no batch afterwards, every  *)
(* batch emitted before is whole (200 lines, or the final remainder), and  *)
(* cancellation can take effect between any two consecutive lattice-point  *)
(* evaluations.                                                            *)
NothingAfterCancel == pc = "cancelled" => ~ENABLED Next

EmittedBatchesWhole ==
    \A k \in 1..Len(FileEvents) :
        LET content == FileEvents[k].value.content
        IN  /\ content = Slice(lines, (k - 1) * pointsPerFile, k * pointsPerFile)
            /\ \/ Len(content) = pointsPerFile
               \/ (k - 1) * pointsPerFile + Len(content) = Len(lines)
            /\ Len(content) > 0

\* the run stands between two evaluations of the filtering loop
BetweenEvaluations ==
    /\ version = "generator" /\ pc = "filter"
    /\ 0 < processedCount /\ processedCount < hexGrid.total

\* the evaluation just made was one after which a progress event is yielded
AtProgressStep ==
    processedCount % ProgressInterval = 0 \/ processedCount = hexGrid.total

C5_CancelBetweenAnyEvaluations ==
    version = "generator" =>
        /\ NothingAfterCancel
        /\ EmittedBatchesWhole
        /\ BetweenEvaluations => (AtProgressStep \/ ENABLED Cancel)

(* C5 (amended): a cancelled generator emits no batch afterwards, every    *)
(* batch emitted before is whole, and cancellation takes effect only where *)
(* the generator is suspended at a yield: in the filtering loop that is    *)
(* after every 100th evaluation and after the last one, never between two  *)
(* other evaluations.                                                      *)
C5_CancelOnlyAtYields ==
    version = "generator" =>
        /\ NothingAfterCancel
        /\ EmittedBatchesWhole
        /\ SuspendedForConsumer => ENABLED Cancel
        /\ (pc \in {"filter", "awaitProgress", "yieldProgress"} /\ ENABLED Cancel)
              => (processedCount > 0 /\ AtProgressStep)
        /\ (BetweenEvaluations /\ ~AtProgressStep) => ~ENABLED Cancel

\* cancelled after the first of three batches
C5_Witness ==
    /\ version = "generator" /\ pc = "cancelled"
    /\ Len(FileEvents) = 1
    /\ Len(FileEvents[1].value.content) = pointsPerFile
    /\ Len(lines) = 2 * pointsPerFile + 1

(* C6 (as stated): every 'file' event is preceded, since the previous      *)
(* 'file' event (or since 'totalFiles' for the first), by at least one     *)
(* 'progress' event.                                                       *)
C6_ProgressBeforeEveryFile ==
    \A k \in 1..Len(events) :
        events[k].type = "file" => (k > 1 /\ events[k - 1].type = "progress")

(* C6 (amended): every 'file' event is preceded in the run by at least one *)
(* 'progress' event, the last of them reporting 100 percent, but all       *)
(* progress events come before 'totalFiles': what directly precedes a      *)
(* 'file' event is 'totalFiles' or another 'file' event.                   *)
C6_ProgressOnlyBeforeTotalFiles ==
    \A k \in 1..Len(events) :
        events[k].type = "file" =>
            /\ k > 1
            /\ events[k - 1].type \in {"totalFiles", "file"}
            /\ \E j \in 1..(k - 1) :
                  /\ events[j].type = "progress"
                  /\ events[j].value.num = 100 * events[j].value.den
                  /\ events[j + 1].type = "totalFiles"

\* a single cell, accepted: one progress event, totalFiles, one file
C6_Witness ==
    /\ hexGrid.total = 1
    /\ Len(events) = 3
    /\ events[1].type = "progress"
    /\ events[3].type = "file"

(* C7: a completed run over n >= 1 accepted points emits exactly           *)
(* ceil(n / batchSize) batches; in the generator that number is the value  *)
(* of the single 'totalFiles' event.                                       *)
C7_BatchCountIsCeiling ==
    Completed =>
        LET n == Len(PointsWithinPolygon(hexGrid))
            k == Len(EmittedBatches)
        IN  /\ n >= 1
            /\ (k - 1) * BatchSize < n
            /\ n <= k * BatchSize
            /\ version = "generator" =>
                  /\ Len(TotalFilesEvents) = 1
                  /\ TotalFilesEvents[1].value = k

\* 201 accepted points of 401 candidates: two batches
C7_Witness ==
    /\ version = "generator" /\ pc = "done"
    /\ Len(points) = pointsPerFile + 1
    /\ Len(FileEvents) = 2

(* C8: when the inward offset is empty (the result of the buffer is        *)
(* absent, or has no coordinates), the run fails with the region-too-small *)
(* error and the caller observes that error; it never completes with an    *)
(* empty result.                                                           *)
OffsetEmpty(b) ==
    b.assigned /\ (~b.defined \/ (b.hasGeometry /\ b.coordinates = <<>>))

HasNoPolygonGeometry(doc) ==
    CASE doc.type = "FeatureCollection" ->
            \A k \in 1..Len(doc.features) :
                ~(Truthy(doc.features[k].geometry) /\ IsPolygonal(doc.features[k].geometry))
      [] doc.type = "Feature" -> ~IsPolygonal(doc.geometry)
      [] OTHER -> ~(doc.type = "Polygon" \/ doc.type = "MultiPolygon")

C9_NoPolygonErrorObserved ==
    /\ (geoJsonString.text = "json" /\ HasNoPolygonGeometry(geoJsonString.doc)
            /\ pc \notin {"start", "cancelled"})
          => (Failed /\ error = "NoPolygonGeometry")
    /\ Truthy(geometry) => IsPolygonal(geometry)

\* the array version, where the caller does receive the error
C9_ArrayWitness ==
    /\ version = "array"
    /\ geoJsonString.text = "json" /\ HasNoPolygonGeometry(geoJsonString.doc)
    /\ Failed /\ error = "NoPolygonGeometry"

(* C10: when the offset region is not empty but no lattice point passes    *)
(* the point-in-polygon filter, the run fails with the no-points-in-region *)
(* error, which is not the region-too-small error, and emits neither       *)
(* 'totalFiles' nor 'file'.                                                *)
FilterFinished ==
    /\ hexGrid.pattern # "unset"
    /\ IF version = "array"
       THEN pc \in {"threw", "format", "chunk", "returned"}
       ELSE /\ processedCount = hexGrid.total
            /\ pc \in {"threw", "yieldTotal", "chunk", "awaitFile", "yieldFile", "done"}

C10_NoPointsFailsDistinctly ==
    (FilterFinished /\ PointsWithinPolygon(hexGrid) = <<>>) =>
        /\ Failed
        /\ error \in {"NoPointsArray", "NoPointsGen"}
        /\ Message(error) # Message("RegionTooSmall")
        /\ Message(error) # Message("Generic")
        /\ ~OffsetEmpty(bufferedPolygon)
        /\ TotalFilesEvents = <<>>
        /\ FileEvents = <<>>
        /\ returned = <<>>

\* 101 candidates, none inside: two progress events, then the error
C10_Witness ==
    /\ version = "generator"
    /\ hexGrid.total = ProgressInterval + 1
    /\ hexGrid.pattern = "none"
    /\ Len(ProgressEvents) = 2
    /\ Failed /\ error = "NoPointsGen"

----------------------------------------------------------------------------
(* parseExcelToGeoJson: the text of cells.  A string is a sequence of       *)
(* characters, a number a count of 1e-7 degrees, as for the coordinates of *)
(* the lattice.  The numerals of the sheets carry no exponent.              *)

\* a JavaScript value held by `lat` / `lon`: a number, NaN, undefined, null
JsNumber(v) == [kind |-> "number", value |-> v]

NaN == [kind |-> "NaN", value |-> 0]

JsUndefined == [kind |-> "undefined", value |-> 0]

JsNull == [kind |-> "null", value |-> 0]

\* isNaN(x) for the values lat / lon take when it is called
isNaN(x) == x.kind \in {"NaN", "undefined"}

\* typeof x === 'number'
TypeofNumber(x) == x.kind \in {"number", "NaN"}

DigitValue(c) ==
    CASE c = "0" -> 0 [] c = "1" -> 1 [] c = "2" -> 2 [] c = "3" -> 3
      [] c = "4" -> 4 [] c = "5" -> 5 [] c = "6" -> 6 [] c = "7" -> 7
      [] c = "8" -> 8 [] c = "9" -> 9

DigitChar(d) ==
    CASE d = 0 -> "0" [] d = 1 -> "1" [] d = 2 -> "2" [] d = 3 -> "3"
      [] d = 4 -> "4" [] d = 5 -> "5" [] d = 6 -> "6" [] d = 7 -> "7"
      [] d = 8 -> "8" [] d = 9 -> "9"

\* String.prototype.includes(',')
Includes(text, c) == \E k \in 1..Len(text) : text[k] = c

\* String.prototype.trim()
RECURSIVE TrimStart(_)
TrimStart(text) ==
    IF text # <<>> /\ IsWhitespace(Head(text)) THEN TrimStart(Tail(text)) ELSE text

RECURSIVE TrimEnd(_)
TrimEnd(text) ==
    IF text # <<>> /\ IsWhitespace(text[Len(text)])
    THEN TrimEnd(SubSeq(text, 1, Len(text) - 1))
    ELSE text

Trim(text) == TrimEnd(TrimStart(text))

\* String.prototype.split(','): the pieces between the commas
RECURSIVE Split(_, _)
Split(text, c) ==
    IF ~Includes(text, c) THEN <<text>>
    ELSE LET k == Min({n \in 1..Len(text) : text[n] = c})
         IN  <<SubSeq(text, 1, k - 1)>> \o Split(SubSeq(text, k + 1, Len(text)), c)

\* String.prototype.replace(',', '.'): the first occurrence only
ReplaceFirst(text, c, d) ==
    IF ~Includes(text, c) THEN text
    ELSE LET k == Min({n \in 1..Len(text) : text[n] = c})
         IN  [n \in 1..Len(text) |-> IF n = k THEN d ELSE text[n]]

\* the longest run of digits a text starts with
RECURSIVE LeadingDigits(_)
LeadingDigits(text) ==
    IF text # <<>> /\ Head(text) \in Digits
    THEN <<Head(text)>> \o LeadingDigits(Tail(text))
    ELSE <<>>

\* the number a run of digits writes
RECURSIVE DigitsValue(_)
DigitsValue(ds) ==
    IF ds = <<>> THEN 0
    ELSE 10 * DigitsValue(SubSeq(ds, 1, Len(ds) - 1)) + DigitValue(ds[Len(ds)])

\* the fraction a run of digits writes after the point, in units of 1e-7
FractionValue(ds) ==
    IF Len(ds) >= CoordDigits
    THEN DigitsValue(SubSeq(ds, 1, CoordDigits))
    ELSE DigitsValue(ds) * Pow10(CoordDigits - Len(ds))

\* parseFloat: leading whitespace is skipped, then the longest prefix
\*   [+-] digits [. digits]   with at least one digit is the number;
\* what follows is ignored; without such a prefix the result is NaN
parseFloat(text) ==
    LET s == TrimStart(text)
        signed == s # <<>> /\ Head(s) \in {"+", "-"}
        body == IF signed THEN Tail(s) ELSE s
        whole == LeadingDigits(body)
        rest == SubSeq(body, Len(whole) + 1, Len(body))
        frac == IF rest # <<>> /\ Head(rest) = "." THEN LeadingDigits(Tail(rest)) ELSE <<>>
        magnitude == DigitsValue(whole) * Pow10(CoordDigits) + FractionValue(frac)
    IN  IF whole = <<>> /\ frac = <<>> THEN NaN
        ELSE JsNumber(IF signed /\ Head(s) = "-" THEN 0 - magnitude ELSE magnitude)

\* the decimal digits of a natural number
RECURSIVE DigitsOf(_)
DigitsOf(n) ==
    IF n < 10 THEN <<DigitChar(n)>> ELSE DigitsOf(n \div 10) \o <<DigitChar(n % 10)>>

\* the digits of a fraction written with `digits` places
RECURSIVE FractionDigits(_, _)
FractionDigits(frac, digits) ==
    IF digits = 0 THEN <<>>
    ELSE FractionDigits(frac \div 10, digits - 1) \o <<DigitChar(frac % 10)>>

\* String(x) of a number: sign, whole part and the shortest fraction
StringOfNumber(x) ==
    LET numeral == NumberToString(IF x < 0 THEN 0 - x ELSE x)
    IN  (IF x < 0 THEN <<"-">> ELSE <<>>)
        \o DigitsOf(numeral.int)
        \o (IF numeral.digits = 0 THEN <<>>
            ELSE <<".">> \o FractionDigits(numeral.frac, numeral.digits))

----------------------------------------------------------------------------
(* parseExcelToGeoJson: cells, rows and what a row yields.  The source     *)
(* holds two versions: the FileReader version (lines 19-84) and the async  *)
(* version (lines 167-239).                                                *)

\* a cell of XLSX.utils.sheet_to_json(worksheet, {header: 1}): a number, a
\* string, or nothing (a hole of the row, read as undefined)
NumberCell(v) == [type |-> "number", value |-> v, text |-> <<>>]

StringCell(text) == [type |-> "string", value |-> 0, text |-> text]

UndefinedCell == [type |-> "undefined", value |-> 0, text |-> <<>>]

\* row[k], k counted from 0
CellAt(row, k) == IF k >= 0 /\ k < Len(row) THEN row[k + 1] ELSE UndefinedCell

\* String(cell) / cell.toString()
StringOf(cell) ==
    CASE cell.type = "number" -> StringOfNumber(cell.value)
      [] cell.type = "string" -> cell.text
      [] OTHER -> <<"u", "n", "d", "e", "f", "i", "n", "e", "d">>

\* const latKeys = ['lat', 'latitude', (the Russian word for latitude)]
latKeys ==
    {<<"l", "a", "t">>, <<"l", "a", "t", "i", "t", "u", "d", "e">>,
     <<"cyr-sh", "cyr-i", "cyr-r", "cyr-o", "cyr-t", "cyr-a">>}

\* const lonKeys = ['lon', 'lng', 'longitude', (the Russian word for longitude)]
lonKeys ==
    {<<"l", "o", "n">>, <<"l", "n", "g">>,
     <<"l", "o", "n", "g", "i", "t", "u", "d", "e">>,
     <<"cyr-d", "cyr-o", "cyr-l", "cyr-g", "cyr-o", "cyr-t", "cyr-a">>}

\* header.forEach((h, i) => { if (keys.includes(lowerH)) index = i }): the
\* last column whose lower-cased text is a key, -1 when there is none;
\* forEach passes over holes
HeaderIndex(header, keys) ==
    LET hits == {k \in 1..Len(header) :
                    /\ header[k].type # "undefined"
                    /\ ToLowerCase(StringOf(header[k])) \in keys}
    IN  IF hits = {} THEN -1 ELSE (CHOOSE k \in hits : \A n \in hits : n <= k) - 1

\* what one pass of the loop leaves in lat and lon
Pair(lat, lon) == [lat |-> lat, lon |-> lon]

\* firstCell.split(',').map(s => parseFloat(s.trim())): lat and lon when
\* there are two parts and both are numbers
PairOfParts(parts, unset) ==
    IF Len(parts) = 2 /\ ~isNaN(parts[1]) /\ ~isNaN(parts[2])
    THEN Pair(parts[1], parts[2])
    ELSE Pair(unset, unset)

\* FileReader version, lines 34-52
RowFileReader(row) ==
    IF CellAt(row, 0).type = "string" /\ Includes(CellAt(row, 0).text, ",")
    THEN LET pieces == Split(CellAt(row, 0).text, ",")
             parts == [k \in 1..Len(pieces) |-> parseFloat(Trim(pieces[k]))]
         IN  PairOfParts(parts, JsUndefined)
    ELSE IF Len(row) >= 2
    THEN LET val1 == parseFloat(StringOf(CellAt(row, 0)))
             val2 == parseFloat(StringOf(CellAt(row, 1)))
         IN  IF ~isNaN(val1) /\ ~isNaN(val2)
             THEN Pair(val1, val2)
             ELSE Pair(JsUndefined, JsUndefined)
    ELSE Pair(JsUndefined, JsUndefined)

\* FileReader version, line 54: typeof lat === 'number' && typeof lon === 'number'
PushedFileReader(pair) == TypeofNumber(pair.lat) /\ TypeofNumber(pair.lon)

\* the header's columns taken the wrong way round
RowByHeaderSwapped(row, latIdx, lonIdx) ==
    Pair(parseFloat(ReplaceFirst(StringOf(CellAt(row, lonIdx)), ",", ".")),
         parseFloat(ReplaceFirst(StringOf(CellAt(row, latIdx)), ",", ".")))

\* async version, lines 198-201: parse using header indices
RowByHeader(row, latIdx, lonIdx) ==
    Pair(parseFloat(ReplaceFirst(StringOf(CellAt(row, latIdx)), ",", ".")),
         parseFloat(ReplaceFirst(StringOf(CellAt(row, lonIdx)), ",", ".")))

\* async version, lines 203-217: the fallback
RowFallback(row) ==
    LET firstCol == StringOf(CellAt(row, 0))
    IN  IF Includes(firstCol, ",")
        THEN LET pieces == Split(firstCol, ",")
                 parts == [k \in 1..Len(pieces) |->
                              parseFloat(ReplaceFirst(Trim(pieces[k]), ",", "."))]
             IN  PairOfParts(parts, JsNull)
        ELSE IF Len(row) >= 2
        THEN Pair(parseFloat(ReplaceFirst(firstCol, ",", ".")),
                  parseFloat(ReplaceFirst(StringOf(CellAt(row, 1)), ",", ".")))
        ELSE Pair(JsNull, JsNull)

\* async version, lines 194-218
RowAsync(row, latIdx, lonIdx) ==
    IF latIdx # -1 /\ lonIdx # -1
    THEN RowByHeader(row, latIdx, lonIdx)
    ELSE RowFallback(row)

\* async version, line 220:
\*   lat !== null && lon !== null && !isNaN(lat) && !isNaN(lon)
PushedAsync(pair) ==
    /\ pair.lat.kind # "null" /\ pair.lon.kind # "null"
    /\ ~isNaN(pair.lat) /\ ~isNaN(pair.lon)

\* coordinates.push([lon, lat]) / points.push(turf.point([lon, lat]))
PointOf(pair) == <<pair.lon.value, pair.lat.value>>

\* the guard that comes too late: three points are still too few
TooFewPointsOffByOne(pts) == Len(pts) <= 3

\* lines 60 and 226: coordinates.length < 3 / points.length < 3
TooFewPoints(pts) == Len(pts) < 3

\* turf.convex: null, or the hull, a Polygon
ConvexResults == {NoGeom, Geom("Polygon", 1)}

----------------------------------------------------------------------------
(* parseExcelToGeoJson: the sheets *)

\* sheets hold up to MaxRows rows
MaxRows == 4

\* a coordinate of whole degrees and hundredths, in units of 1e-7 degrees
Degrees(whole, hundredths) ==
    whole * Pow10(CoordDigits) + hundredths * Pow10(CoordDigits - 2)

\* two numeric cells
TwoNumbers == <<NumberCell(Degrees(55, 50)), NumberCell(Degrees(37, 25))>>

\* one text cell "56.5, 38.25"
OneCellPair ==
    <<StringCell(<<"5", "6", ".", "5", ",", " ", "3", "8", ".", "2", "5">>)>>

\* two text cells written with decimal commas: "55,5" and "37,25"
TwoCommaNumerals ==
    <<StringCell(<<"5", "5", ",", "5">>), StringCell(<<"3", "7", ",", "2", "5">>)>>

\* two text cells written with decimal points: "57.5" and "39.25"
TwoPointNumerals ==
    <<StringCell(<<"5", "7", ".", "5">>), StringCell(<<"3", "9", ".", "2", "5">>)>>

\* two numeric cells that are no latitude and no longitude: -95.5 and 190.5
OutOfRange == <<NumberCell(0 - Degrees(95, 50)), NumberCell(Degrees(190, 50))>>

\* a text that is no number, beside a number
NotANumber == <<StringCell(<<"a", "b", "c">>), NumberCell(Degrees(37, 25))>>

\* one text cell "1,2,3"
ThreeParts == <<StringCell(<<"1", ",", "2", ",", "3">>)>>

EmptyRow == <<>>

DataRows ==
    {TwoNumbers, OneCellPair, TwoCommaNumerals, TwoPointNumerals, OutOfRange,
     NotANumber, ThreeParts, EmptyRow}

\* a header "lat", "lon"
HeaderLatLon == <<StringCell(<<"l", "a", "t">>), StringCell(<<"l", "o", "n">>)>>

\* a header in Russian, capitalised, longitude first
HeaderLonLat ==
    <<StringCell(<<"CYR-D", "cyr-o", "cyr-l", "cyr-g", "cyr-o", "cyr-t", "cyr-a">>),
      StringCell(<<"CYR-SH", "cyr-i", "cyr-r", "cyr-o", "cyr-t", "cyr-a">>)>>

HeaderRows == {HeaderLatLon, HeaderLonLat}

\* the rows of the first sheet of a file: an optional header, then data rows
Sheets ==
    UNION {{sheet \in [1..n -> DataRows \cup HeaderRows] :
                \A k \in 2..n : sheet[k] \in DataRows} : n \in 0..MaxRows}

\* no text yet (the promise is not settled)
NoText == [text |-> "none", doc |-> RootGeometry("null", 0)]

InitExcel ==
    /\ version \in {"FileReader", "async"}
    /\ jsonArray \in Sheets
    /\ latIndex = -1
    /\ lonIndex = -1
    /\ rowIndex = 0
    /\ sheetPoints = <<>>
    /\ OneCall
    /\ pc = "start"
    /\ error = "none"
    /\ geoJsonString = NoText
    /\ regionName = <<>>
    /\ radiusKm = 0
    /\ geometry = NoGeom
    /\ bufferedPolygon = Unassigned
    /\ hexGrid = EmptyGrid
    /\ processedCount = 0
    /\ points = <<>>
    /\ regionSlug = <<>>
    /\ lines = <<>>
    /\ totalFiles = 0
    /\ i = 0
    /\ outputFile = NoFile
    /\ outputFiles = <<>>
    /\ events = <<>>
    /\ returned = <<>>

\* what parseExcelToGeoJson never touches
generatorVars ==
    <<regionName, radiusKm, geometry, bufferedPolygon, hexGrid, processedCount,
      points, regionSlug, lines, totalFiles, i, outputFile, outputFiles, events,
      returned>>

\* reject(new Error(...)) / throw new Error(...)
Reject(e) ==
    /\ pc' = "threw"
    /\ error' = e

----------------------------------------------------------------------------
(* parseExcelToGeoJson, FileReader version, lines 19-84 *)

\* line 81: reader.onerror
FileReaderOnError ==
    /\ version = "FileReader" /\ pc = "start"
    /\ Reject("ReadFailed")
    /\ UNCHANGED <<callerVars, version, sheetVars, geoJsonString, generatorVars>>

\* lines 22-30: reader.onload: XLSX.read, sheet_to_json, the empty
\* coordinates; what XLSX throws is caught at line 77
FileReaderOnLoad ==
    /\ version = "FileReader" /\ pc = "start"
    /\ \/ Reject("ExcelFailed")
       \/ pc' = "loop" /\ UNCHANGED error
    /\ UNCHANGED <<callerVars, version, sheetVars, geoJsonString, generatorVars>>

\* lines 31-58: one row of the loop
FileReaderRow ==
    /\ version = "FileReader" /\ pc = "loop"
    /\ rowIndex < Len(jsonArray)
    /\ LET row == jsonArray[rowIndex + 1]
           pair == RowFileReader(row)
       IN  sheetPoints' = IF Len(row) # 0 /\ PushedFileReader(pair)
                          THEN Append(sheetPoints, PointOf(pair))
                          ELSE sheetPoints
    /\ rowIndex' = rowIndex + 1
    /\ UNCHANGED <<callerVars, version, jsonArray, latIndex, lonIndex, pc, error,
                   geoJsonString, generatorVars>>

\* lines 60-63: the loop is over; fewer than 3 coordinates are rejected
FileReaderCheck ==
    /\ version = "FileReader" /\ pc = "loop"
    /\ ~(rowIndex < Len(jsonArray))
    /\ IF TooFewPoints(sheetPoints)
       THEN Reject("InsufficientPointsFileReader")
       ELSE pc' = "hull" /\ UNCHANGED error
    /\ UNCHANGED <<callerVars, version, sheetVars, geoJsonString, generatorVars>>

\* lines 65-76: turf.convex and the resolution with the hull's text
FileReaderHull ==
    /\ version = "FileReader" /\ pc = "hull"
    /\ \/ Reject("ExcelFailed") /\ UNCHANGED geoJsonString
       \/ \E convexHull \in ConvexResults :
            IF ~Truthy(convexHull)
            THEN Reject("NoHullFileReader") /\ UNCHANGED geoJsonString
            ELSE /\ geoJsonString' = Stringify(RootFeature(convexHull))
                 /\ pc' = "resolved"
                 /\ UNCHANGED error
    /\ UNCHANGED <<callerVars, version, sheetVars, generatorVars>>

----------------------------------------------------------------------------
(* parseExcelToGeoJson, async version, lines 167-239 *)

\* lines 168-189: file.arrayBuffer, XLSX.read, sheet_to_json, the header's
\* indices; what the reads throw reaches the caller as it is
AsyncReadHeader ==
    /\ version = "async" /\ pc = "start"
    /\ \/ Reject("XlsxError") /\ UNCHANGED <<latIndex, lonIndex>>
       \/ /\ IF Len(jsonArray) > 0 /\ Len(jsonArray[1]) > 0
             THEN /\ latIndex' = HeaderIndex(jsonArray[1], latKeys)
                  /\ lonIndex' = HeaderIndex(jsonArray[1], lonKeys)
             ELSE UNCHANGED <<latIndex, lonIndex>>
          /\ pc' = "loop"
          /\ UNCHANGED error
    /\ UNCHANGED <<callerVars, version, jsonArray, rowIndex, sheetPoints, geoJsonString,
                   generatorVars>>

\* lines 192-224: one row of the loop
AsyncRow ==
    /\ version = "async" /\ pc = "loop"
    /\ rowIndex < Len(jsonArray)
    /\ LET row == jsonArray[rowIndex + 1]
           pair == RowAsync(row, latIndex, lonIndex)
       IN  sheetPoints' = IF Len(row) # 0 /\ PushedAsync(pair)
                          THEN Append(sheetPoints, PointOf(pair))
                          ELSE sheetPoints
    /\ rowIndex' = rowIndex + 1
    /\ UNCHANGED <<callerVars, version, jsonArray, latIndex, lonIndex, pc, error,
                   geoJsonString, generatorVars>>

\* lines 226-228: the loop is over; fewer than 3 points are an error
AsyncCheck ==
    /\ version = "async" /\ pc = "loop"
    /\ ~(rowIndex < Len(jsonArray))
    /\ IF TooFewPoints(sheetPoints)
       THEN Reject("InsufficientPointsAsync")
       ELSE pc' = "hull" /\ UNCHANGED error
    /\ UNCHANGED <<callerVars, version, sheetVars, geoJsonString, generatorVars>>

\* lines 230-238: turf.convex and the returned text
AsyncHull ==
    /\ version = "async" /\ pc = "hull"
    /\ \/ Reject("TurfError") /\ UNCHANGED geoJsonString
       \/ \E convexPolygon \in ConvexResults :
            IF ~Truthy(convexPolygon) \/ convexPolygon.type # "Polygon"
            THEN Reject("NoHullAsync") /\ UNCHANGED geoJsonString
            ELSE /\ geoJsonString' = Stringify(RootFeature(convexPolygon))
                 /\ pc' = "resolved"
                 /\ UNCHANGED error
    /\ UNCHANGED <<callerVars, version, sheetVars, generatorVars>>

NextExcel ==
    \/ FileReaderOnError
    \/ FileReaderOnLoad
    \/ FileReaderRow
    \/ FileReaderCheck
    \/ FileReaderHull
    \/ AsyncReadHeader
    \/ AsyncRow
    \/ AsyncCheck
    \/ AsyncHull

SpecExcel == InitExcel /\ [][NextExcel]_vars

----------------------------------------------------------------------------
(* What a run of parseExcelToGeoJson has read *)

\* the row is one the version's loop pushes a point for
YieldsPoint(row) ==
    /\ Len(row) # 0
    /\ IF version = "FileReader"
       THEN PushedFileReader(RowFileReader(row))
       ELSE PushedAsync(RowAsync(row, latIndex, lonIndex))

\* the rows of the sheet that yield a point
ValidRows == {k \in 1..Len(jsonArray) : YieldsPoint(jsonArray[k])}

InsufficientPointsErrors ==
    {"InsufficientPointsFileReader", "InsufficientPointsAsync"}

\* the loop is over and the count of the points is about to be tested
AtPointCountTest == pc = "loop" /\ ~(rowIndex < Len(jsonArray))

----------------------------------------------------------------------------
\* C11: once every row is read, parseExcelToGeoJson fails with the
\* insufficient-points error exactly when fewer than 3 rows yielded a
\* coordinate pair; with 3 or more it goes on to the hull construction.
C11_InsufficientExactlyBelowThree ==
    [][AtPointCountTest =>
         IF Cardinality(ValidRows) < 3
         THEN pc' = "threw" /\ error' \in InsufficientPointsErrors
         ELSE pc' = "hull" /\ error' = "none"]_vars

\* a sheet of three rows of which two yield a point is refused
C11_Witness ==
    /\ pc = "threw" /\ error \in InsufficientPointsErrors
    /\ Len(jsonArray) = 3 /\ Cardinality(ValidRows) = 2 /\ Len(sheetPoints) = 2

----------------------------------------------------------------------------
(* The two layouts of a row, as the description of the extractor gives     *)
(* them: (a) a single cell holding two decimal numbers separated by a      *)
(* comma, (b) two adjacent cells that are each a decimal number.           *)

\* the text, trimmed, is a decimal numeral from end to end: [+-] digits [. digits]
IsDecimalNumeral(text) ==
    LET s == Trim(text)
        body == IF s # <<>> /\ Head(s) \in {"+", "-"} THEN Tail(s) ELSE s
        whole == LeadingDigits(body)
        rest == SubSeq(body, Len(whole) + 1, Len(body))
        frac == IF rest # <<>> /\ Head(rest) = "." THEN LeadingDigits(Tail(rest)) ELSE <<>>
        used == Len(whole) + (IF rest # <<>> /\ Head(rest) = "." THEN 1 + Len(frac) ELSE 0)
    IN  (whole # <<>> \/ frac # <<>>) /\ used = Len(body)

\* the cell is a decimal number: a numeric cell, or a text that is a decimal
\* numeral written with a decimal point or with a decimal comma
IsDecimalCell(cell) ==
    \/ cell.type = "number"
    \/ cell.type = "string" /\ IsDecimalNumeral(ReplaceFirst(cell.text, ",", "."))

\* the number a decimal cell holds
DecimalOfCell(cell) ==
    IF cell.type = "number" THEN cell.value
    ELSE parseFloat(ReplaceFirst(cell.text, ",", ".")).value

\* layout (a)
IsSingleCellRow(row) ==
    /\ Len(row) = 1 /\ row[1].type = "string"
    /\ LET pieces == Split(row[1].text, ",")
       IN  Len(pieces) = 2 /\ IsDecimalNumeral(pieces[1]) /\ IsDecimalNumeral(pieces[2])

\* layout (b)
IsTwoCellRow(row) ==
    Len(row) >= 2 /\ IsDecimalCell(row[1]) /\ IsDecimalCell(row[2])

MatchesLayout(row) == IsSingleCellRow(row) \/ IsTwoCellRow(row)

\* the two numbers of a row of either layout, in the order of the row
RowNumbers(row) ==
    IF IsSingleCellRow(row)
    THEN LET pieces == Split(row[1].text, ",")
         IN  <<parseFloat(pieces[1]).value, parseFloat(pieces[2]).value>>
    ELSE <<DecimalOfCell(row[1]), DecimalOfCell(row[2])>>

\* the rows of either layout among the first n rows, in row order
MatchingRows(n) == SelectSeq(SubSeq(jsonArray, 1, n), MatchesLayout)

\* the point is made of the two numbers of the row
PointIsOfRow(point, row) ==
    {point[1], point[2]} = {RowNumbers(row)[1], RowNumbers(row)[2]}

\* the row loop has started
RowsBeingRead == pc \in {"loop", "hull", "resolved"} \/ error \in InsufficientPointsErrors

----------------------------------------------------------------------------
\* C12: the points extracted are exactly the rows of one of the two
\* layouts, in row order, one point per such row, duplicates kept; the
\* other rows are skipped and raise no error.
C12_PointsAreMatchingRows ==
    RowsBeingRead =>
        /\ Len(sheetPoints) = Len(MatchingRows(rowIndex))
        /\ \A k \in 1..Len(sheetPoints) :
              PointIsOfRow(sheetPoints[k], MatchingRows(rowIndex)[k])

\* a sheet whose rows of either layout are read in order, one row skipped,
\* one row twice
C12_Witness ==
    /\ pc = "hull" /\ Len(jsonArray) = 4 /\ Len(sheetPoints) = 3
    /\ \A k \in 1..3 : PointIsOfRow(sheetPoints[k], MatchingRows(4)[k])
    /\ sheetPoints[1] = sheetPoints[3] /\ sheetPoints[1] # sheetPoints[2]

----------------------------------------------------------------------------
(* One pass of the row loop *)

\* the loop is about to read a row
AtRow == pc = "loop" /\ rowIndex < Len(jsonArray)

\* the row the loop is about to read
CurrentRow == jsonArray[rowIndex + 1]

\* the pass pushed exactly one point, made of the two numbers of the row
PushedPointOfRow(row) ==
    /\ Len(sheetPoints') = Len(sheetPoints) + 1
    /\ SubSeq(sheetPoints', 1, Len(sheetPoints)) = sheetPoints
    /\ PointIsOfRow(sheetPoints'[Len(sheetPoints')], row)

\* the first row names a latitude column and a longitude column
NamesLatitude(cell) == cell.type = "string" /\ ToLowerCase(cell.text) \in latKeys

NamesLongitude(cell) == cell.type = "string" /\ ToLowerCase(cell.text) \in lonKeys

HasHeader ==
    /\ Len(jsonArray) > 0
    /\ \E k \in 1..Len(jsonArray[1]) : NamesLatitude(jsonArray[1][k])
    /\ \E k \in 1..Len(jsonArray[1]) : NamesLongitude(jsonArray[1][k])

----------------------------------------------------------------------------
\* C13: the layout is chosen for each row on its own: every row of
\* either layout yields its point, whatever the other rows are, also in a
\* sheet whose first row names the latitude and longitude columns.
C13_EveryLayoutRowYields ==
    [][(AtRow /\ MatchesLayout(CurrentRow)) => PushedPointOfRow(CurrentRow)]_vars

\* the async version under a header has passed over a single-cell row
C13_Witness ==
    /\ version = "async" /\ HasHeader /\ latIndex # -1 /\ lonIndex # -1
    /\ rowIndex = 2 /\ jsonArray[2] = OneCellPair /\ sheetPoints = <<>>

----------------------------------------------------------------------------
(* Header columns *)

\* the columns the first row names, counted from 0
LatColumn == (CHOOSE k \in 1..Len(jsonArray[1]) : NamesLatitude(jsonArray[1][k])) - 1

LonColumn == (CHOOSE k \in 1..Len(jsonArray[1]) : NamesLongitude(jsonArray[1][k])) - 1

\* a cell that holds a number: a numeric cell or a decimal-point numeral
IsNumberCell(cell) ==
    cell.type = "number" \/ (cell.type = "string" /\ IsDecimalNumeral(cell.text))

\* a data row of two numbers
IsTwoNumberRow(row) == Len(row) = 2 /\ IsNumberCell(row[1]) /\ IsNumberCell(row[2])

\* the point [lon, lat] with latitude and longitude taken from the named columns
PointByHeader(row) ==
    <<DecimalOfCell(CellAt(row, LonColumn)), DecimalOfCell(CellAt(row, LatColumn))>>

\* the point [lon, lat] with the first cell as latitude, the second as longitude
PointByPosition(row) == <<DecimalOfCell(row[2]), DecimalOfCell(row[1])>>

\* the pass pushed exactly this point
PushedPoint(point) == sheetPoints' = Append(sheetPoints, point)

----------------------------------------------------------------------------
\* C14 as claimed: when the first row names a latitude and a longitude
\* column, every two-cell data row yields (value in the latitude column,
\* value in the longitude column) whatever the order of the columns; without
\* such a header the first cell is the latitude and the second the longitude.
C14_HeaderAssignsColumns ==
    [][(AtRow /\ IsTwoNumberRow(CurrentRow)) =>
          PushedPoint(IF HasHeader THEN PointByHeader(CurrentRow)
                      ELSE PointByPosition(CurrentRow))]_vars

\* C14 as amended: the async version assigns the columns by the header; the
\* FileReader version reads no header; without a header, and always in the
\* FileReader version, the first cell is the latitude and the second the
\* longitude.
C14_HeaderAssignsColumnsAsync ==
    [][(AtRow /\ IsTwoNumberRow(CurrentRow)) =>
          PushedPoint(IF HasHeader /\ version = "async"
                      THEN PointByHeader(CurrentRow)
                      ELSE PointByPosition(CurrentRow))]_vars

\* under a header with the longitude first, the async version has read the
\* row (55.5, 37.25) as longitude 55.5, latitude 37.25
C14_Witness ==
    /\ version = "async" /\ HasHeader /\ LonColumn = 0 /\ LatColumn = 1
    /\ rowIndex >= 2 /\ jsonArray[2] = TwoNumbers
    /\ sheetPoints # <<>> /\ sheetPoints[1] = <<Degrees(55, 50), Degrees(37, 25)>>

----------------------------------------------------------------------------
\* C15: a row of two adjacent cells that are each a decimal number,
\* written with a decimal point or with a decimal comma, yields the point
\* of the two cells or is skipped; no point is made of the two halves of
\* its first cell.
C15_TwoCellsNeverSplit ==
    [][(AtRow /\ IsTwoCellRow(CurrentRow)) =>
          (sheetPoints' = sheetPoints \/ PushedPointOfRow(CurrentRow))]_vars

\* the row "55,5", "37,25" has become the point of latitude 55, longitude 5
C15_Witness ==
    /\ rowIndex >= 1 /\ jsonArray[1] = TwoCommaNumerals
    /\ sheetPoints # <<>> /\ sheetPoints[1] = <<Degrees(5, 0), Degrees(55, 0)>>

----------------------------------------------------------------------------
(* The ranges of a GeoPoint *)

LatitudeInRange(lat) == 0 - Degrees(90, 0) <= lat /\ lat <= Degrees(90, 0)

LongitudeInRange(lon) == 0 - Degrees(180, 0) <= lon /\ lon <= Degrees(180, 0)

\* C16: every point extracted and handed to the hull construction has its
\* latitude in [-90, 90] and its longitude in [-180, 180]; a row whose
\* numbers are outside these ranges does not become a point.
C16_PointsInRange ==
    \A k \in 1..Len(sheetPoints) :
        LongitudeInRange(sheetPoints[k][1]) /\ LatitudeInRange(sheetPoints[k][2])

\* turf.convex is about to be called with a point of latitude -95.5,
\* longitude 190.5
C16_Witness ==
    /\ pc = "hull"
    /\ \E k \in 1..Len(sheetPoints) :
          sheetPoints[k] = <<Degrees(190, 50), 0 - Degrees(95, 50)>>

----------------------------------------------------------------------------
(* The search for the boundary geometry on its own: the first stage of     *)
(* generatePointsFromGeoJson applied to every document, the text kept.     *)

InitNormalize ==
    /\ version \in {"array", "generator"}
    /\ geoJsonString \in GeoJsonStrings
    /\ regionName = <<>>
    /\ radiusKm = 0
    /\ pc = "start"
    /\ geometry = NoGeom
    /\ bufferedPolygon = Unassigned
    /\ hexGrid = EmptyGrid
    /\ processedCount = 0
    /\ points = <<>>
    /\ regionSlug = <<>>
    /\ lines = <<>>
    /\ totalFiles = 0
    /\ i = 0
    /\ outputFile = NoFile
    /\ outputFiles = <<>>
    /\ events = <<>>
    /\ returned = <<>>
    /\ error = "none"
    /\ jsonArray = <<>>
    /\ latIndex = -1
    /\ lonIndex = -1
    /\ rowIndex = 0
    /\ sheetPoints = <<>>
    /\ OneCall

\* array version, lines 99-115
ArrayNormalizeStage == ArrayFindGeometry(geoJsonString)

\* generator, lines 261-275
GenNormalizeStage == GenFindGeometry(geoJsonString)

NextNormalize ==
    \/ ArrayNormalizeStage
    \/ GenNormalizeStage

SpecNormalize == InitNormalize /\ [][NextNormalize]_vars

----------------------------------------------------------------------------
(* The boundary a document holds, as the description of the normaliser     *)
(* gives the search                                                         *)

\* the document read
InputDocument == JsonParse(geoJsonString)

\* the geometry of the first feature, in collection order, whose geometry
\* type is Polygon or MultiPolygon; NoGeom when there is none
RECURSIVE FirstPolygonalGeometry(_)
FirstPolygonalGeometry(features) ==
    IF features = <<>> THEN NoGeom
    ELSE IF Head(features).geometry.type \in {"Polygon", "MultiPolygon"}
    THEN Head(features).geometry
    ELSE FirstPolygonalGeometry(Tail(features))

\* the search is done and has found a geometry
GeometryFound == pc = "buffer"

\* the search is done
SearchDone == pc \in {"buffer", "threw"}

\* the input is a feature collection
CollectionRead ==
    ~ParseThrows(geoJsonString) /\ InputDocument.type = "FeatureCollection"

----------------------------------------------------------------------------
\* C17: for a FeatureCollection the geometry used is that of the first
\* feature, in collection order, whose geometry type is Polygon or
\* MultiPolygon: features before it without geometry or of another type are
\* passed over, features after it are not used; without such a feature the
\* run fails.
C17_FirstPolygonFeatureUsed ==
    (SearchDone /\ CollectionRead) =>
        LET first == FirstPolygonalGeometry(InputDocument.features)
        IN  IF Truthy(first)
            THEN GeometryFound /\ geometry = first
            ELSE pc = "threw"

\* a collection whose first feature is no polygon and whose second is one
C17_Witness ==
    /\ GeometryFound /\ CollectionRead
    /\ Len(InputDocument.features) = 2
    /\ ~IsPolygonal(InputDocument.features[1].geometry)
    /\ geometry = InputDocument.features[2].geometry

----------------------------------------------------------------------------
\* the boundary of the document: the root geometry, the geometry of the
\* root feature, the first polygonal geometry of the collection
Boundary ==
    CASE InputDocument.type = "FeatureCollection" ->
             FirstPolygonalGeometry(InputDocument.features)
      [] InputDocument.type = "Feature" -> InputDocument.geometry
      [] OTHER -> Geom(InputDocument.type, InputDocument.id)

\* the boundary found is a MultiPolygon
MultiPolygonFound ==
    GeometryFound /\ ~ParseThrows(geoJsonString) /\ Boundary.type = "MultiPolygon"

\* C18 as claimed: for a MultiPolygon boundary the geometry handed to the
\* offset stage is only its first constituent polygon.
C18_OnlyFirstPolygon ==
    MultiPolygonFound => geometry = Polygons(Boundary)[1]

\* C18 as amended: for a MultiPolygon boundary the geometry handed to the
\* offset stage is the MultiPolygon as found, with all its polygons.
C18_WholeMultiPolygon ==
    MultiPolygonFound =>
        /\ geometry = Boundary
        /\ Polygons(geometry) = Polygons(Boundary)

\* a MultiPolygon of two polygons found in a collection is about to be
\* handed to turf.buffer
C18_Witness ==
    /\ MultiPolygonFound /\ CollectionRead
    /\ geometry.type = "MultiPolygon" /\ Len(Polygons(geometry)) = 2

----------------------------------------------------------------------------
(* The formatting and chunking stages for every label: a run of either     *)
(* version taken up after the filter, where a lattice of one cell has      *)
(* given one point.                                                        *)

\* labels have up to MaxLabelLen characters
MaxLabelLen == 4

\* upper and lower case, a digit, whitespace, hyphen, underscore, a
\* Cyrillic letter, punctuation
LabelAlphabet == {"A", "b", "1", " ", "-", "_", "YA", "!"}

LabelTexts == UNION {[1..n -> LabelAlphabet] : n \in 1..MaxLabelLen}

\* the lattice of one cell, inside
OneCell == [total |-> 1, pattern |-> "all"]

InitLabels ==
    /\ version \in {"array", "generator"}
    /\ geoJsonString = Consumed
    /\ regionName \in LabelTexts
    /\ radiusKm \in Radii
    /\ pc = IF version = "array" THEN "format" ELSE "filter"
    /\ geometry = Geom("Polygon", 1)
    /\ bufferedPolygon = Ring
    /\ hexGrid = OneCell
    /\ processedCount = IF version = "array" THEN 0 ELSE 1
    /\ points = <<Centroid(1)>>
    /\ regionSlug = <<>>
    /\ lines = <<>>
    /\ totalFiles = 0
    /\ i = 0
    /\ outputFile = NoFile
    /\ outputFiles = <<>>
    /\ events = IF version = "array" THEN <<>>
                ELSE <<ProgressEvent(ProgressValue(1, 1))>>
    /\ returned = <<>>
    /\ error = "none"
    /\ jsonArray = <<>>
    /\ latIndex = -1
    /\ lonIndex = -1
    /\ rowIndex = 0
    /\ sheetPoints = <<>>
    /\ OneCall

NextLabels ==
    \/ ArrayFormat
    \/ ArrayChunk
    \/ ArrayReturn
    \/ GenFormat
    \/ GenResumeTotal
    \/ GenBuildFile
    \/ GenYieldFile
    \/ GenResumeChunk
    \/ GenDone

SpecLabels == InitLabels /\ [][NextLabels]_vars

----------------------------------------------------------------------------
(* The form of a line and of a batch name *)

\* the numeral has exactly 6 fractional digits and is x rounded to them
IsFixedNumeralOf(numeral, x) ==
    /\ numeral.digits = FixedDigits
    /\ numeral.frac \in 0..(Pow10(FixedDigits) - 1)
    /\ LET micro == numeral.int * Pow10(FixedDigits) + numeral.frac
       IN  10 * micro - x \in -4..5

\* the line is <label>:<radiusKm>km:<lat>,<lon> for the point
IsLineOf(line, point) ==
    /\ line.label = regionName
    /\ line.radius = radiusKm
    /\ IsFixedNumeralOf(line.lat, point.latitude)
    /\ line.sep = ","
    /\ IsFixedNumeralOf(line.lon, point.longitude)

\* the lines emitted so far
EmittedLines == ConcatContents(EmittedBatches)

\* C19: every emitted line is <label>:<radiusKm>km:<lat>,<lon>: the label
\* as given in the request, the latitude then the longitude of the point,
\* each with exactly 6 fractional digits, a comma without whitespace between.
C19_LinesLabelledFixedSix ==
    \A k \in 1..Len(EmittedLines) : IsLineOf(EmittedLines[k], points[k])

\* the generator has emitted a line that starts with the slug, not the label
C19_Witness ==
    /\ version = "generator" /\ pc = "done" /\ Len(EmittedLines) = 1
    /\ regionName = <<"A", " ", "b">>
    /\ EmittedLines[1].label = <<"a", "-", "b">>
    /\ EmittedLines[1].sep = ", "

----------------------------------------------------------------------------
(* The batch names *)

\* the names of the batches built so far, in order
BatchNames ==
    LET built == IF version = "array" THEN outputFiles ELSE EmittedBatches
    IN  [k \in 1..Len(built) |-> built[k].name]

\* no hyphen next to a hyphen, none at either end
HyphensSingle(text) ==
    /\ \A k \in 1..(Len(text) - 1) : ~(text[k] = "-" /\ text[k + 1] = "-")
    /\ text # <<>> => (text[1] # "-" /\ text[Len(text)] # "-")

\* only characters of the set, hyphens single
IsSlugOver(text, chars) ==
    /\ \A k \in 1..Len(text) : text[k] \in chars \cup {"-"}
    /\ HyphensSingle(text)

LowerAlphanumerics == LowerLetters \cup Digits

\* C20 as claimed: the slug of a batch name holds only lower-case
\* alphanumerics and single hyphens (no underscore, no other character,
\* no run of hyphens, no hyphen at either end), and batch k is named
\* <slug>_part<k>.txt.
C20_SlugAlphanumericHyphen ==
    \A k \in 1..Len(BatchNames) :
        /\ IsSlugOver(BatchNames[k].stem, LowerAlphanumerics)
        /\ BatchNames[k].part = k
        /\ BatchNames[k].ext = ".txt"

\* C20 as amended: the generator names batch k <slug>_part<k>.txt, where
\* the slug holds only lower-case letters, digits, underscores and single
\* hyphens, with no hyphen at either end (it may be empty); the array version
\* names batch k <label>_part<k>.txt with the label as given.
C20_SlugWordCharsHyphen ==
    \A k \in 1..Len(BatchNames) :
        /\ IF version = "generator"
           THEN /\ BatchNames[k].stem = regionSlug
                /\ IsSlugOver(BatchNames[k].stem, LowerAlphanumerics \cup {"_"})
           ELSE BatchNames[k].stem = regionName
        /\ BatchNames[k].part = k
        /\ BatchNames[k].ext = ".txt"

\* the label "A _-" has given the batch name a-__part1.txt: the underscore
\* is kept, the whitespace is a hyphen, the hyphen at the end is gone
C20_Witness ==
    /\ version = "generator" /\ pc = "done"
    /\ regionName = <<"A", " ", "_", "-">>
    /\ Len(BatchNames) = 1
    /\ BatchNames[1] = FileName(<<"a", "-", "_">>, 1)

----------------------------------------------------------------------------
(* Two calls of generatePointsFromGeoJson with the same arguments.  The    *)
(* function body declares every variable it writes (const / let inside the *)
(* body); the module holds one binding besides the functions, the constant *)
(* CHUNK_SIZE.  A call is followed to its end, then the caller calls       *)
(* again.  The library is a function of its arguments: a call of the       *)
(* second run with the arguments of a call of the first run ends as that   *)
(* call ended.                                                             *)

\* what the caller sees of a library call that throws
TurfErrorSeen == IF version = "array" THEN "TurfError" ELSE CatchBlock("TurfError")

LibraryThrew == pc = "threw" /\ error = TurfErrorSeen

Call(args, threw) == [called |-> TRUE, args |-> args, throws |-> threw]

\* lines 118, 277: turf.buffer(feature | geometry, -radiusKm), as the run
\* that has ended made it
BufferCall ==
    IF Truthy(geometry)
    THEN Call(<<geometry, radiusKm>>, bufferedPolygon = Unassigned)
    ELSE NoCall

\* lines 125-130, 283-284: bbox and pointGrid / hexGrid (array: with
\* pointsWithinPolygon), as the run that has ended made them
GridCall ==
    IF bufferedPolygon # Unassigned /\ (hexGrid # EmptyGrid \/ LibraryThrew)
    THEN Call(<<bufferedPolygon, radiusKm>>, hexGrid = EmptyGrid)
    ELSE NoCall

\* lines 290-292: centroid and booleanPointInPolygon over the cells, as the
\* generator run that has ended made them
InsideCall ==
    IF version = "generator" /\ hexGrid # EmptyGrid
    THEN Call(<<hexGrid, bufferedPolygon>>, LibraryThrew)
    ELSE NoCall

\* what the caller keeps of a call that has ended: its outcome, and the
\* library's answers to it
TheRun ==
    [pc |-> pc, error |-> error, events |-> events, returned |-> returned,
     buffer |-> BufferCall, bufferValue |-> bufferedPolygon,
     grid |-> GridCall, gridValue |-> hexGrid,
     inside |-> InsideCall,
     insideThrowsAt |-> IF InsideCall.throws THEN processedCount + 1 ELSE 0]

Ended == pc \in {"returned", "done", "threw"}

\* the caller calls the function again with the same arguments: a new
\* promise / generator object starts at the top of the body.  Nothing is
\* written to the variables of the body: each gets its value from its own
\* declaration when the new call reaches it
InvokeAgain ==
    /\ invocation = 1
    /\ Ended
    /\ firstRun' = TheRun
    /\ invocation' = 2
    /\ pc' = "start"
    /\ error' = "none"
    /\ events' = <<>>
    /\ returned' = <<>>
    /\ UNCHANGED <<sheetVars, request, genLocals, outputFiles, selectedFile,
                   isLoading, searchQuery, isSearching, searchResults,
                   searchError, captured>>

\* turf.buffer answers the second call as it answered the first
SameBuffer ==
    (invocation = 2 /\ firstRun.buffer.called
        /\ firstRun.buffer.args = <<geometry, radiusKm>>)
    => IF firstRun.buffer.throws
       THEN error' = TurfErrorSeen
       ELSE error' # TurfErrorSeen /\ bufferedPolygon' = firstRun.bufferValue

\* the grid calls answer the second call as they answered the first
SameGrid ==
    (invocation = 2 /\ firstRun.grid.called
        /\ firstRun.grid.args = <<bufferedPolygon, radiusKm>>)
    => IF firstRun.grid.throws
       THEN error' = TurfErrorSeen
       ELSE error' # TurfErrorSeen /\ hexGrid' = firstRun.gridValue

\* booleanPointInPolygon answers for a cell as it answered in the first call
SameInside ==
    (invocation = 2 /\ firstRun.inside.called
        /\ firstRun.inside.args = <<hexGrid, bufferedPolygon>>)
    => (error' = TurfErrorSeen <=> processedCount + 1 = firstRun.insideThrowsAt)

\* the lattices of the two-call runs: none, one and two cells, and one cell
\* more than a batch holds
TwiceGridSizes == {0, 1, 2, pointsPerFile + 1}

TwiceTexts ==
    {Malformed,
     Stringify(FeatureCollection(<<>>)),
     Stringify(RootGeometry("Polygon", 1)),
     Stringify(FeatureCollection(<<Feature(Geom("Point", 3)),
                                   Feature(Geom("MultiPolygon", 2))>>))}

InitTwice ==
    /\ version \in {"array", "generator"}
    /\ geoJsonString \in TwiceTexts
    /\ regionName \in Labels
    /\ radiusKm \in Radii
    /\ pc = "start"
    /\ geometry = NoGeom
    /\ bufferedPolygon = Unassigned
    /\ hexGrid = EmptyGrid
    /\ processedCount = 0
    /\ points = <<>>
    /\ regionSlug = <<>>
    /\ lines = <<>>
    /\ totalFiles = 0
    /\ i = 0
    /\ outputFile = NoFile
    /\ outputFiles = <<>>
    /\ events = <<>>
    /\ returned = <<>>
    /\ error = "none"
    /\ jsonArray = <<>>
    /\ latIndex = -1
    /\ lonIndex = -1
    /\ rowIndex = 0
    /\ sheetPoints = <<>>
    /\ OneCall

ArrayBufferTwice == ArrayBuffer /\ SameBuffer

ArrayGridFilterTwice ==
    ArrayGridFilter /\ hexGrid'.total \in TwiceGridSizes /\ SameGrid

GenBufferTwice == GenBuffer /\ SameBuffer

GenHexGridTwice ==
    GenHexGrid /\ hexGrid'.total \in TwiceGridSizes /\ SameGrid

GenEvaluateCellTwice == GenEvaluateCell /\ SameInside

NextTwice ==
    \/ ArrayNormalizeStage
    \/ ArrayBufferTwice
    \/ ArrayGridFilterTwice
    \/ ArrayFormat
    \/ ArrayChunk
    \/ ArrayReturn
    \/ GenNormalizeStage
    \/ GenBufferTwice
    \/ GenHexGridTwice
    \/ GenEvaluateCellTwice
    \/ GenYieldProgress
    \/ GenResumeFilter
    \/ GenFormat
    \/ GenResumeTotal
    \/ GenBuildFile
    \/ GenYieldFile
    \/ GenResumeChunk
    \/ GenDone
    \/ InvokeAgain

SpecTwice == InitTwice /\ [][NextTwice]_vars

\* the batches the first call emitted
FirstBatches ==
    IF version = "array" THEN firstRun.returned
    ELSE LET files == SelectSeq(firstRun.events, LAMBDA e : e.type = "file")
         IN  [k \in 1..Len(files) |-> files[k].value]

----------------------------------------------------------------------------
(* C21: two calls of generatePointsFromGeoJson with the same boundary      *)
(* text, label and radius, the library answering equal calls equally, emit *)
(* the same batches in the same order, names and contents equal: at every  *)
(* moment of the second call what it has emitted is the beginning of what  *)
(* the first call emitted, and when it has ended it has emitted all of it, *)
(* ended as the first ended, with the same error if it failed.  Nothing    *)
(* the first call left in the variables of the body changes that.          *)
C21_SecondRunRepeatsFirst ==
    invocation = 2 =>
        /\ IsPrefix(events, firstRun.events)
        /\ IsPrefix(EmittedBatches, FirstBatches)
        /\ Ended =>
            /\ pc = firstRun.pc
            /\ error = firstRun.error
            /\ events = firstRun.events
            /\ EmittedBatches = FirstBatches

\* a second call has ended after emitting two batches
C21_Witness ==
    /\ invocation = 2
    /\ Completed
    /\ Len(EmittedBatches) = 2
    /\ EmittedBatches = FirstBatches
    /\ Len(EmittedBatches[2].content) = 1

----------------------------------------------------------------------------
(* The order of the generator's events *)

\* the phase an event belongs to
PhaseOf(e) ==
    CASE e.type = "progress"   -> 1
      [] e.type = "totalFiles" -> 2
      [] OTHER                 -> 3

\* the cells evaluated when a progress event was yielded: its value is
\* processedCount / totalHexagons * 100
ProcessedAt(e) == e.value.num \div 100

ReportsAll(e) == e.value.num = 100 * e.value.den

----------------------------------------------------------------------------
(* C22: in every completed run of the async generator the events come in   *)
(* three phases: the progress events, then exactly one totalFiles event,   *)
(* then the file events; between two consecutive progress events at most   *)
(* 100 cells are evaluated; with at least one cell in the lattice the last *)
(* progress event reports 100% and comes before totalFiles.                *)
C22_ThreePhases ==
    (version = "generator" /\ Completed) =>
        /\ \A k \in 1..(Len(events) - 1) : PhaseOf(events[k]) <= PhaseOf(events[k + 1])
        /\ Len(TotalFilesEvents) = 1
        /\ \A k \in 1..(Len(ProgressEvents) - 1) :
              /\ ProcessedAt(ProgressEvents[k]) < ProcessedAt(ProgressEvents[k + 1])
              /\ ProcessedAt(ProgressEvents[k + 1]) - ProcessedAt(ProgressEvents[k])
                    <= ProgressInterval
        /\ hexGrid.total >= 1 =>
              /\ ProgressEvents # <<>>
              /\ ReportsAll(ProgressEvents[Len(ProgressEvents)])
              /\ events[Len(ProgressEvents)].type = "progress"
              /\ events[Len(ProgressEvents) + 1].type = "totalFiles"

\* a completed run over 201 cells: progress after 100, 200 and 201 cells,
\* totalFiles, two files
C22_Witness ==
    /\ version = "generator" /\ Completed
    /\ hexGrid.total = 2 * ProgressInterval + 1
    /\ Len(ProgressEvents) = 3
    /\ ProcessedAt(ProgressEvents[2]) - ProcessedAt(ProgressEvents[1]) = ProgressInterval
    /\ ProcessedAt(ProgressEvents[3]) - ProcessedAt(ProgressEvents[2]) = 1
    /\ events[4].type = "totalFiles"
    /\ Len(FileEvents) = 2
    /\ events[Len(events)].type = "file"

----------------------------------------------------------------------------
(* App.tsx, the later App (lines 224-342): the component's state and its   *)
(* handlers.  A handler runs to its next await in one step; the state      *)
(* setters it calls take effect together.  regionName, outputFiles and     *)
(* error are here the component's state of those names, geoJsonString the  *)
(* local of handleGenerateClick, pc the await where handleGenerateClick is *)
(* suspended ("idle": it is not running).  The controls that are disabled  *)
(* in the rendered page cannot start their handlers.                       *)

\* Array.prototype.join('.')
RECURSIVE Join(_, _)
Join(parts, c) ==
    IF parts = <<>> THEN <<>>
    ELSE IF Len(parts) = 1 THEN parts[1]
    ELSE parts[1] \o <<c>> \o Join(Tail(parts), c)

\* line 315: selectedFile.name.split('.').pop()?.toLowerCase()
FileExtension(file) ==
    LET parts == Split(file.name, ".")
    IN  ToLowerCase(parts[Len(parts)])

\* line 240: file.name.split('.').slice(0, -1).join('.')
NameWithoutExtension(file) ==
    LET parts == Split(file.name, ".")
    IN  Join(SubSeq(parts, 1, Len(parts) - 1), ".")

\* the files the user can pick in the file dialog
UploadedFiles ==
    {File(<<"a", ".", "x", "l", "s">>, Geom("Polygon", 1)),
     File(<<"b", ".", "J", "S", "O", "N">>, Geom("Polygon", 2)),
     File(<<"c", ".", "t", "x", "t">>, Geom("Polygon", 3)),
     File(<<"n", "o", "t", "e">>, Geom("Polygon", 4))}

\* lines 218-222: a Nominatim search result
SearchResult(id, name, geojson) ==
    [osm_id |-> id, display_name |-> name, geojson |-> geojson]

Amur == SearchResult(1, <<"A", "m", ",", " ", "R", "U">>, Geom("Polygon", 11))

Sakhalin == SearchResult(2, <<"CYR-SH", " ", "1">>, Geom("MultiPolygon", 12))

Lighthouse == SearchResult(3, <<"L">>, Geom("Point", 13))

\* what response.json() can hold
Responses == {<<>>, <<Lighthouse>>, <<Amur, Lighthouse, Sakhalin>>}

\* line 266: the results that have a polygon geometry
ValidResults(data) ==
    SelectSeq(data, LAMBDA item : Truthy(item.geojson) /\ IsPolygonal(item.geojson))

\* line 296: result.display_name.split(',')[0]
PrimaryName(result) == Split(result.display_name, ",")[1]

\* line 292: .replace(/[^a-z0-9\s-]/gi, '').trim()
SanitizedName(result) ==
    Trim(SelectSeq(PrimaryName(result),
                   LAMBDA c : c \in LowerLetters \cup UpperLetters \cup Digits
                              \/ IsWhitespace(c) \/ c = "-"))

\* lines 282-293: the File made of a search result: a Feature around its geometry
FileOfResult(result) ==
    File(SanitizedName(result) \o <<".", "g", "e", "o", "j", "s", "o", "n">>,
         result.geojson)

\* what selectedFile.text() resolves with for a GeoJSON file, and
\* parseExcelToGeoJson for a workbook: the boundary as a Feature
TextOf(file) == Stringify(RootFeature(file.boundary))

\* the radius of the generatePointsFromGeoJson(geoJsonString, regionName)
\* the later App calls (the message of line 328)
AppRadiusKm == 10

\* what generatePointsFromGeoJson resolves with when it finds points: one
\* batch, its line a point of the boundary the text describes
GeneratedFiles(text, name) ==
    <<OutputFileOf(name, 1,
        <<FormatLineArray(name, AppRadiusKm, Centroid(text.doc.geometry.id))>>)>>

\* what the user can type into the two text inputs
TypedQueries == {<<>>, <<" ">>, <<"A", "m">>}

TypedNames == {<<>>, <<"Z", " ">>}

\* lines 334-338: the message the catch block shows
CatchMessage(e) == IF e = "NotAnError" THEN "Unknown" ELSE e

\* line 426: the generate button is disabled
GenerateDisabled ==
    isLoading \/ selectedFile = NoSelectedFile \/ Trim(regionName) = <<>>

\* the generator's and the parser's variables, which the App does not hold
serviceVars ==
    <<invocation, firstRun, version, sheetVars, radiusKm, genLocals, events,
      returned>>

InitApp ==
    /\ version = "array"
    /\ geoJsonString = NoText
    /\ regionName = <<>>
    /\ radiusKm = AppRadiusKm
    /\ pc = "idle"
    /\ geometry = NoGeom
    /\ bufferedPolygon = Unassigned
    /\ hexGrid = EmptyGrid
    /\ processedCount = 0
    /\ points = <<>>
    /\ regionSlug = <<>>
    /\ lines = <<>>
    /\ totalFiles = 0
    /\ i = 0
    /\ outputFile = NoFile
    /\ outputFiles = <<>>
    /\ events = <<>>
    /\ returned = <<>>
    /\ error = "none"
    /\ jsonArray = <<>>
    /\ latIndex = -1
    /\ lonIndex = -1
    /\ rowIndex = 0
    /\ sheetPoints = <<>>
    /\ OneCall

\* line 361: onChange of the search input
SetSearchQuery ==
    /\ \E q \in TypedQueries : searchQuery' = q
    /\ UNCHANGED <<serviceVars, selectedFile, regionName, outputFiles, isLoading,
                   error, isSearching, searchResults, searchError, captured,
                   pc, geoJsonString>>

\* lines 403-405: onChange of the region-name input, disabled while loading
SetRegionName ==
    /\ ~isLoading
    /\ \E t \in TypedNames : regionName' = t
    /\ UNCHANGED <<serviceVars, selectedFile, outputFiles, isLoading, error,
                   searchQuery, isSearching, searchResults, searchError,
                   captured, pc, geoJsonString>>

\* lines 237-244; the FileUploader is disabled while loading (line 415)
handleFileSelect ==
    /\ ~isLoading
    /\ \E file \in UploadedFiles :
          /\ selectedFile' = file
          /\ regionName' = NameWithoutExtension(file)
    /\ outputFiles' = <<>>
    /\ error' = "none"
    /\ searchResults' = <<>>
    /\ UNCHANGED <<serviceVars, isLoading, searchQuery, isSearching, searchError,
                   captured, pc, geoJsonString>>

\* lines 246-257: up to the await of fetch; the button is disabled while
\* a search is running (line 365)
handleSearch ==
    /\ ~isSearching
    /\ IF Trim(searchQuery) = <<>>
       THEN /\ searchError' = "EnterName"
            /\ UNCHANGED <<isSearching, searchResults, error>>
       ELSE /\ isSearching' = TRUE
            /\ searchError' = "none"
            /\ searchResults' = <<>>
            /\ error' = "none"
    /\ UNCHANGED <<serviceVars, selectedFile, regionName, outputFiles, isLoading,
                   searchQuery, captured, pc, geoJsonString>>

\* lines 257-277: fetch and response.json() settle
SearchSettles ==
    /\ isSearching
    /\ \/ searchError' = "SearchFailed" /\ UNCHANGED searchResults
       \/ \E data \in Responses :
            IF Len(data) = 0
            THEN searchError' = "NothingFound" /\ UNCHANGED searchResults
            ELSE IF Len(ValidResults(data)) = 0
            THEN searchError' = "NoPolygonResults" /\ UNCHANGED searchResults
            ELSE searchResults' = ValidResults(data) /\ UNCHANGED searchError
    /\ isSearching' = FALSE
    /\ UNCHANGED <<serviceVars, selectedFile, regionName, outputFiles, isLoading,
                   error, searchQuery, captured, pc, geoJsonString>>

\* lines 280-301; a button of every result shown (line 377), never disabled
handleSelectSearchResult ==
    /\ \E k \in 1..Len(searchResults) :
          /\ selectedFile' = FileOfResult(searchResults[k])
          /\ regionName' = PrimaryName(searchResults[k])
    /\ searchResults' = <<>>
    /\ searchQuery' = <<>>
    /\ error' = "none"
    /\ outputFiles' = <<>>
    /\ UNCHANGED <<serviceVars, isLoading, isSearching, searchError, captured,
                   pc, geoJsonString>>

\* lines 339-341 after a throw: catch, finally
GenerateFails(e) ==
    /\ error' = CatchMessage(e)
    /\ isLoading' = FALSE
    /\ pc' = "idle"
    /\ captured' = NoCapture
    /\ geoJsonString' = NoText

\* lines 303-323: up to the first await
handleGenerateClick ==
    /\ ~GenerateDisabled
    /\ pc = "idle"
    /\ IF selectedFile = NoSelectedFile \/ Trim(regionName) = <<>>
       THEN /\ error' = "SelectFileAndName"
            /\ UNCHANGED <<isLoading, outputFiles, pc, captured, geoJsonString>>
       ELSE /\ outputFiles' = <<>>
            /\ IF FileExtension(selectedFile) \in {<<"x", "l", "s", "x">>, <<"x", "l", "s">>}
               THEN /\ pc' = "awaitParse"
                    /\ isLoading' = TRUE
                    /\ error' = "none"
                    /\ captured' = [selectedFile |-> selectedFile,
                                    regionName |-> regionName]
                    /\ UNCHANGED geoJsonString
               ELSE IF FileExtension(selectedFile)
                          \in {<<"g", "e", "o", "j", "s", "o", "n">>, <<"j", "s", "o", "n">>}
               THEN /\ pc' = "awaitText"
                    /\ isLoading' = TRUE
                    /\ error' = "none"
                    /\ captured' = [selectedFile |-> selectedFile,
                                    regionName |-> regionName]
                    /\ UNCHANGED geoJsonString
               ELSE GenerateFails("Unsupported")
    /\ UNCHANGED <<serviceVars, selectedFile, regionName, searchQuery,
                   isSearching, searchResults, searchError>>

\* line 318: parseExcelToGeoJson(selectedFile) settles; line 325 calls the generator
ParseSettles ==
    /\ pc = "awaitParse"
    /\ \/ /\ geoJsonString' = TextOf(captured.selectedFile)
          /\ pc' = "awaitGenerate"
          /\ UNCHANGED <<error, isLoading, captured>>
       \/ GenerateFails("ParseFailed")
    /\ UNCHANGED <<serviceVars, selectedFile, regionName, outputFiles,
                   searchQuery, isSearching, searchResults, searchError>>

\* line 320: selectedFile.text() settles; line 325 calls the generator
TextSettles ==
    /\ pc = "awaitText"
    /\ \/ /\ geoJsonString' = TextOf(captured.selectedFile)
          /\ pc' = "awaitGenerate"
          /\ UNCHANGED <<error, isLoading, captured>>
       \/ GenerateFails("ReadFailed")
    /\ UNCHANGED <<serviceVars, selectedFile, regionName, outputFiles,
                   searchQuery, isSearching, searchResults, searchError>>

\* lines 325-341: generatePointsFromGeoJson(geoJsonString, regionName) settles
GenerateSettles ==
    /\ pc = "awaitGenerate"
    /\ \/ \E generatedFiles \in {<<>>, GeneratedFiles(geoJsonString, captured.regionName)} :
            /\ IF Len(generatedFiles) = 0
               THEN error' = "NoPointsGenerated" /\ UNCHANGED outputFiles
               ELSE outputFiles' = generatedFiles /\ UNCHANGED error
            /\ isLoading' = FALSE
            /\ pc' = "idle"
            /\ captured' = NoCapture
            /\ geoJsonString' = NoText
       \/ GenerateFails("GenerateFailed") /\ UNCHANGED outputFiles
    /\ UNCHANGED <<serviceVars, selectedFile, regionName, searchQuery,
                   isSearching, searchResults, searchError>>

NextApp ==
    \/ SetSearchQuery
    \/ SetRegionName
    \/ handleFileSelect
    \/ handleSearch
    \/ SearchSettles
    \/ handleSelectSearchResult
    \/ handleGenerateClick
    \/ ParseSettles
    \/ TextSettles
    \/ GenerateSettles

SpecApp == InitApp /\ [][NextApp]_vars

\* the files shown were generated from this file
GeneratedFromFile(files, file) ==
    files = GeneratedFiles(TextOf(file), files[1].name.stem)

\* error and a non-empty outputFiles are not set together
ErrorAndOutputsApart == ~(error # "none" /\ outputFiles # <<>>)

----------------------------------------------------------------------------
(* C23: in the later App, under any interleaving of handleFileSelect,      *)
(* handleSelectSearchResult, handleSearch and a running                    *)
(* handleGenerateClick: whenever isLoading is false and outputFiles is     *)
(* not empty, the output files were generated from the file that is        *)
(* selected now; and error and a non-empty outputFiles are never set       *)
(* together.                                                               *)
C23_OutputsOfSelectedFile ==
    /\ (~isLoading /\ outputFiles # <<>>) => GeneratedFromFile(outputFiles, selectedFile)
    /\ ErrorAndOutputsApart

\* the files of the uploaded b.JSON are shown while the file made of the
\* search result Amur is the selected one
C23_Witness ==
    /\ ~isLoading
    /\ pc = "idle"
    /\ selectedFile = FileOfResult(Amur)
    /\ outputFiles # <<>>
    /\ GeneratedFromFile(outputFiles, File(<<"b", ".", "J", "S", "O", "N">>, Geom("Polygon", 2)))
    /\ error = "none"

====
